---------------------------- MODULE Spec2Model ----------------------------
(***************************************************************************)
(* A model of the paravirtual file engine of the multi-guest monitor       *)
(* (src/nivoC/mini_hypervisor.c) and of the guest library that drives it   *)
(* (src/nivoC/guest.c).                                                    *)
(*                                                                         *)
(* Every guest is one run-loop thread.  A step of a guest is one VM exit   *)
(* (one port instruction or HLT) handled by the monitor.  The two places   *)
(* where guests' threads really interleave inside a handler are kept as    *)
(* separate steps: the blocking sem_wait of start_file_operation and the   *)
(* statements that follow sem_post in end_file_operation.                  *)
(*                                                                         *)
(* The heap of struct file records is modelled with addresses, so that     *)
(* stale pointers (file_indirect, current_file) and reuse of a freed       *)
(* record by malloc are states of the model.  The host file system and     *)
(* the host descriptor table are modelled as far as open/close/read/write  *)
(* of the engine use them.                                                 *)
(***************************************************************************)
EXTENDS Integers, Sequences, FiniteSets, TLC

(***************************************************************************)
(* Bounds of the model.                                                    *)
(***************************************************************************)
MaxRec == 2
MaxFd == 6
MaxFileLen == 2
MaxOps == 3

(***************************************************************************)
(* Program constants.                                                      *)
(***************************************************************************)
FINISH == 0
OPEN == 1
CLOSE == 2
READ == 3
WRITE == 4
EOF == -1
O_WRONLY == 1
O_RDWR == 2
O_CREAT == 64
O_EXCL == 128
O_TRUNC == 512
O_APPEND == 1024

NULL == 0
Guests == {0, 1}
Addrs == 1 .. MaxRec
FdRange == 3 .. MaxFd

(***************************************************************************)
(* C integer helpers.  A dword is a signed 32-bit int as handle_file reads *)
(* it; HasBit is the test (x & bit) != 0 for a power of two, in two's      *)
(* complement.                                                             *)
(***************************************************************************)
HasBit(x, bit) ==
    IF x >= 0 THEN (x \div bit) % 2 = 1
              ELSE ((-x - 1) \div bit) % 2 = 0

\* flags & (O_RDWR | O_WRONLY | O_TRUNC | O_APPEND)
WriteIntent(flags) ==
    HasBit(flags, O_RDWR) \/ HasBit(flags, O_WRONLY)
        \/ HasBit(flags, O_TRUNC) \/ HasBit(flags, O_APPEND)

\* flags & O_ACCMODE as the host kernel reads it: 0 read, 1 write, 2 both, 3 none
AccMode(flags) ==
    (IF HasBit(flags, 1) THEN 1 ELSE 0) + (IF HasBit(flags, 2) THEN 2 ELSE 0)

\* a byte 0..255 seen through a (signed) char
ToChar(b) == IF b > 127 THEN b - 256 ELSE b
\* a char or int stored into one byte of the run region
ToByte(c) == c % 256

(***************************************************************************)
(* Strings are sequences of character codes.                               *)
(***************************************************************************)
ChV == 118
ChM == 109
ChUnderscore == 95
ChZero == 48

RECURSIVE Digits(_)
Digits(n) == IF n < 10 THEN <<ChZero + n>>
                       ELSE Digits(n \div 10) \o <<ChZero + (n % 10)>>

\* a prefix that leaves the id out
SprintfNoId(id) == <<ChV, ChM, ChUnderscore, ChUnderscore>>

\* sprintf(path, "vm_%d_", id)
SprintfPrefix(id) == <<ChV, ChM, ChUnderscore>> \o Digits(id) \o <<ChUnderscore>>

RECURSIVE FirstNul(_, _)
FirstNul(s, i) ==
    IF i > Len(s) THEN 0
    ELSE IF s[i] = 0 THEN i ELSE FirstNul(s, i + 1)

\* the C string held in a char buffer: the bytes before the first NUL
\* (bytes of the buffer that were never written are zero pages)
CString(buf) ==
    IF FirstNul(buf, 1) = 0 THEN buf ELSE SubSeq(buf, 1, FirstNul(buf, 1) - 1)

\* strcat(path, ime) after the sprintf
SandboxPath(id, ime) == SprintfPrefix(id) \o CString(ime)

IsPrefix(s, t) == Len(s) <= Len(t) /\ SubSeq(t, 1, Len(s)) = s


(***************************************************************************)
(* State.                                                                  *)
(*   sem            value of the semaphore file_mutex                      *)
(*   held           how many permits of file_mutex each guest has taken    *)
(*                  and not given back                                     *)
(*   lock, file_head, file_indirect, current_file   fields of struct guest *)
(*                  (file_indirect = NULL stands for &vm->file_head, an    *)
(*                  address a for &a->next)                                *)
(*   heap, live     the struct file records by address, and the addresses  *)
(*                  malloc has handed out and free has not taken back      *)
(*   pc, pend       where each run-loop thread is, and the operation code  *)
(*                  it is blocked on in sem_wait                           *)
(*   fs, fdt        host files (path -> bytes) and host descriptor table   *)
(*   ev             the last step: whose it was and which function of the  *)
(*                  engine ran; fin says that the step handled a 32-bit    *)
(*                  OUT of FINISH, or finished the handling of one         *)
(*   reply          what that step stored at run_region + data_offset      *)
(*   hostlog        what that step did to files of the host                *)
(*   lib            the guest library call each guest is executing         *)
(*   nops           how many operation codes the guests have sent so far   *)
(***************************************************************************)
VARIABLES sem, held, lock, file_head, file_indirect, current_file, heap, live,
          pc, pend, fs, fdt, ev, reply, hostlog, lib, nops

(***************************************************************************)
(* The state of main while it creates the guests (init_guest).             *)
(*   mem_size, page_size   main's memory and page_size                     *)
(*   main_i          how many guests main's loop has initialized and       *)
(*                   started                                               *)
(*   boot_pc         where main is: the function of init_guest it calls    *)
(*                   next, or "returned" (init_guest has returned -1),     *)
(*                   "start_guest", "exited" (exit(EXIT_FAILURE)), "join"  *)
(*   incId           init_guest's static counter                           *)
(*   id              vm->id of each guest                                  *)
(*   acquired        the handles and mappings the process holds: pairs of  *)
(*                   a guest and "vm_fd", "mem", "slot", "vm_vcpu",        *)
(*                   "kvm_run"                                             *)
(*   mem             what setup_long_mode has written to each guest's      *)
(*                   memory: guest-physical address of a 64-bit entry ->   *)
(*                   entry (every other word of the fresh mapping is 0)    *)
(*   starting_address      main's starting_address                         *)
(***************************************************************************)
VARIABLES mem_size, page_size, main_i, boot_pc, incId, id, acquired, mem,
          starting_address

bootVars == <<mem_size, page_size, main_i, boot_pc, incId, id, acquired, mem,
              starting_address>>
engineVars == <<sem, held, lock, file_head, file_indirect, current_file, heap, live,
                pc, pend, fs, fdt, ev, reply, hostlog, lib, nops>>

vars == <<sem, held, lock, file_head, file_indirect, current_file, heap, live,
          pc, pend, fs, fdt, ev, reply, hostlog, lib, nops, bootVars>>

guestVars == <<lock, file_head, file_indirect, current_file>>
hostVars == <<fs, fdt>>

NoReply == [stored |-> FALSE, val |-> 0]
Stored(v) == [stored |-> TRUE, val |-> v]
NoOutput == reply' = NoReply /\ hostlog' = {}

(***************************************************************************)
(* The host: open(2), close(2), read(2), write(2) on regular files in the  *)
(* monitor's working directory.  Permission bits are not modelled.  The    *)
(* descriptor table has the slots FdRange; a full table is EMFILE.  A file *)
(* can hold MaxFileLen bytes; a write beyond that fails.                   *)
(***************************************************************************)
ClosedFd == [open |-> FALSE, path |-> <<>>, pos |-> 0, flags |-> 0]

FreeFds(t) == {f \in FdRange : ~t[f].open}
MinOf(S) == CHOOSE x \in S : \A y \in S : x <= y

\* open(path, flags, mode): [ret, fs, fdt, created, truncated]
HostOpen(f, t, path, flags) ==
    LET ex == path \in DOMAIN f
        fails == \/ FreeFds(t) = {}
                 \/ path = <<>>
                 \/ ~ex /\ ~HasBit(flags, O_CREAT)
                 \/ ex /\ HasBit(flags, O_CREAT) /\ HasBit(flags, O_EXCL)
        fd == MinOf(FreeFds(t))
        trunc == ex /\ HasBit(flags, O_TRUNC)
    IN  IF fails
        THEN [ret |-> -1, fs |-> f, fdt |-> t, created |-> FALSE, truncated |-> FALSE]
        ELSE [ret |-> fd,
              fs |-> IF ~ex THEN f @@ (path :> <<>>)
                     ELSE IF trunc THEN [f EXCEPT ![path] = <<>>] ELSE f,
              fdt |-> [t EXCEPT ![fd] = [open |-> TRUE, path |-> path,
                                         pos |-> 0, flags |-> flags]],
              created |-> ~ex,
              truncated |-> trunc /\ f[path] # <<>>]

IsOpenFd(t, fd) == fd \in FdRange /\ t[fd].open

\* close(fd): [ret, fdt]
HostClose(t, fd) ==
    IF IsOpenFd(t, fd) THEN [ret |-> 0, fdt |-> [t EXCEPT ![fd] = ClosedFd]]
                       ELSE [ret |-> -1, fdt |-> t]

\* read(fd, &c, 1): [ret, c, fdt]
HostRead(f, t, fd) ==
    IF ~IsOpenFd(t, fd) \/ AccMode(t[fd].flags) \in {1, 3}
    THEN [ret |-> -1, c |-> 0, fdt |-> t]
    ELSE IF t[fd].pos < Len(f[t[fd].path])
         THEN [ret |-> 1, c |-> f[t[fd].path][t[fd].pos + 1],
               fdt |-> [t EXCEPT ![fd].pos = @ + 1]]
         ELSE [ret |-> 0, c |-> 0, fdt |-> t]

\* write(fd, &data, 1): [ret, fs, fdt]
HostWrite(f, t, fd, b) ==
    IF ~IsOpenFd(t, fd) \/ AccMode(t[fd].flags) \in {0, 3}
    THEN [ret |-> -1, fs |-> f, fdt |-> t]
    ELSE LET p == t[fd].path
             at == IF HasBit(t[fd].flags, O_APPEND) THEN Len(f[p]) ELSE t[fd].pos
         IN  IF at >= MaxFileLen
             THEN [ret |-> -1, fs |-> f, fdt |-> t]
             ELSE [ret |-> 1,
                   fs |-> [f EXCEPT ![p] =
                             IF at < Len(@) THEN [@ EXCEPT ![at + 1] = b]
                                            ELSE Append(@, b)],
                   fdt |-> [t EXCEPT ![fd].pos = at + 1]]


(***************************************************************************)
(* The heap of struct file records.                                        *)
(***************************************************************************)
FreshRec == [fd |-> 0, flags |-> 0, mode |-> 0, cnt |-> 0, next |-> NULL, ime |-> <<>>]

\* what a freed record's fd field reads as afterwards: the old value, or
\* whatever the allocator wrote over it
Garbage == -2
FreedFd(old) == {old, Garbage}

RECURSIVE Walk(_, _, _)
Walk(hp, a, n) ==
    IF a = NULL \/ n = 0 THEN <<>> ELSE <<a>> \o Walk(hp, hp[a].next, n - 1)

\* the records reachable from a guest's file_head, in order; a walk that is
\* longer than the heap goes round a cycle
ListFrom(hp, head) == Walk(hp, head, MaxRec + 1)
Cyclic(hp, head) == Len(ListFrom(hp, head)) > MaxRec
Files(g) == {ListFrom(heap, file_head[g])[i] : i \in 1 .. Len(ListFrom(heap, file_head[g]))}

RECURSIVE FindFd(_, _, _, _)
FindFd(hp, l, i, data) ==
    IF i > Len(l) THEN NULL
    ELSE IF hp[l[i]].fd = data THEN l[i] ELSE FindFd(hp, l, i + 1, data)

RECURSIVE IndexOf(_, _, _)
IndexOf(l, i, a) ==
    IF i > Len(l) THEN 0 ELSE IF l[i] = a THEN i ELSE IndexOf(l, i + 1, a)


\* free(a): the record leaves the live set.  Its next pointer and name buffer
\* stay as they are; its fd reads as FreedFd afterwards; flags, mode and cnt
\* are not read again before init_file sets them, and are cleared here.
FreeRec(hp, a, v) ==
    [hp EXCEPT ![a] = [@ EXCEPT !.fd = v, !.flags = 0, !.mode = 0, !.cnt = 0]]

\* vm->id: init_guest numbers the guests 0, 1, ... in the order main creates them
Id(g) == g

LogOf(g, path, r) ==
    IF r.ret < 0 THEN {}
    ELSE {[g |-> g, path |-> path, op |-> "open"]}
         \cup (IF r.created THEN {[g |-> g, path |-> path, op |-> "create"]} ELSE {})
         \cup (IF r.truncated THEN {[g |-> g, path |-> path, op |-> "modify"]} ELSE {})

(***************************************************************************)
(* end_file_operation up to and including sem_post; the two assignments    *)
(* that follow it are the step EndFileOperationClear.                      *)
(***************************************************************************)
EndFileOperation(g) ==
    /\ sem' = sem + 1
    /\ held' = [held EXCEPT ![g] = @ - 1]
    /\ pc' = [pc EXCEPT ![g] = "end"]
    /\ UNCHANGED <<guestVars, heap, live, pend, hostVars>>

EndFileOperationClear(g) ==
    /\ pc[g] = "end"
    /\ lock' = [lock EXCEPT ![g] = 0]
    /\ current_file' = [current_file EXCEPT ![g] = NULL]
    /\ pc' = [pc EXCEPT ![g] = "run"]
    /\ ev' = [g |-> g, kind |-> "cleared", fin |-> lock[g] # OPEN]
    /\ NoOutput
    /\ UNCHANGED <<sem, held, file_head, file_indirect, heap, live, pend, hostVars, lib, nops,
                   bootVars>>

(***************************************************************************)
(* start_file_operation: the thread first blocks in sem_wait (SemWait),    *)
(* and the rest of the function runs once it has the permit.               *)
(***************************************************************************)
SemWait(g, operation) ==
    /\ pc' = [pc EXCEPT ![g] = "wait"]
    /\ pend' = [pend EXCEPT ![g] = operation]
    /\ UNCHANGED <<sem, held, guestVars, heap, live, hostVars>>

\* init_file: malloc returns any address that is not in use; the fields are
\* set, the name buffer is left as it was
InitFile(hp, a) ==
    [hp EXCEPT ![a] = [@ EXCEPT !.cnt = 0, !.next = NULL, !.flags = -1,
                                !.mode = -1, !.fd = -1]]

\* *vm->file_indirect = new_file
StoreIndirect(hp, ind, new) ==
    IF ind = NULL THEN hp ELSE [hp EXCEPT ![ind].next = new]

StartFileOperation(g) ==
    /\ pc[g] = "wait"
    /\ sem > 0
    /\ sem' = sem - 1
    /\ held' = [held EXCEPT ![g] = @ + 1]
    /\ lock' = [lock EXCEPT ![g] = pend[g]]
    /\ IF pend[g] = OPEN
       THEN \E new \in Addrs \ live :
               /\ live' = live \cup {new}
               /\ heap' = StoreIndirect(InitFile(heap, new), file_indirect[g], new)
               /\ file_head' = IF file_indirect[g] = NULL
                                THEN [file_head EXCEPT ![g] = new] ELSE file_head
               /\ file_indirect' = [file_indirect EXCEPT ![g] = new]
               /\ current_file' = [current_file EXCEPT ![g] = new]
       ELSE UNCHANGED <<heap, live, file_head, file_indirect, current_file>>
    /\ pc' = [pc EXCEPT ![g] = "run"]
    /\ pend' = [pend EXCEPT ![g] = 0]
    /\ ev' = [g |-> g, kind |-> "started", fin |-> pend[g] = FINISH]
    /\ NoOutput
    /\ UNCHANGED <<hostVars, lib, nops, bootVars>>

(***************************************************************************)
(* The OPEN operation.                                                     *)
(***************************************************************************)
NoOpen(f, t) == [ret |-> -1, fs |-> f, fdt |-> t, created |-> FALSE, truncated |-> FALSE]

\* check_path_exists: access(path, F_OK) == 0 ? open(path, flags, mode) : -1
CheckPathExists(f, t, path, flags) ==
    IF path \in DOMAIN f THEN HostOpen(f, t, path, flags) ELSE NoOpen(f, t)

\* create_local_copy: open(path, O_CREAT, 0777), the descriptor is dropped
CreateLocalCopy(f, t, path) == HostOpen(f, t, path, O_CREAT)

\* the else branch with the local copy made whatever the flags
ResolveAlwaysCopy(g, f, t, ime, flags) ==
    LET path == SandboxPath(Id(g), ime)
        o1 == CheckPathExists(f, t, path, flags)
        cr == CreateLocalCopy(o1.fs, o1.fdt, path)
        o2 == CheckPathExists(cr.fs, cr.fdt, path, flags)
    IN  IF o1.ret >= 0
        THEN [last |-> o1, log |-> LogOf(g, path, o1)]
        ELSE [last |-> o2, log |-> LogOf(g, path, cr) \cup LogOf(g, path, o2)]

\* the else branch of opened_file_op_flags: the host calls it makes, in order,
\* and the one whose result becomes current_file->fd
Resolve(g, f, t, ime, flags) ==
    LET path == SandboxPath(Id(g), ime)
        o1 == CheckPathExists(f, t, path, flags)
        cr == CreateLocalCopy(o1.fs, o1.fdt, path)
        o2 == CheckPathExists(cr.fs, cr.fdt, path, flags)
        o3 == HostOpen(o1.fs, o1.fdt, CString(ime), flags)
    IN  IF o1.ret >= 0
        THEN [last |-> o1, log |-> LogOf(g, path, o1)]
        ELSE IF WriteIntent(flags)
             THEN [last |-> o2, log |-> LogOf(g, path, cr) \cup LogOf(g, path, o2)]
             ELSE [last |-> o3, log |-> LogOf(g, CString(ime), o3)]

OpenedFileOpFlags(g, data) ==
    LET cf == current_file[g]
        r == Resolve(g, fs, fdt, heap[cf].ime, heap[cf].flags)
    IN  /\ IF heap[cf].flags = -1
           THEN /\ heap' = [heap EXCEPT ![cf].flags = data]
                /\ hostlog' = {}
                /\ UNCHANGED hostVars
           ELSE /\ heap' = [heap EXCEPT ![cf].mode = data, ![cf].fd = r.last.ret]
                /\ fs' = r.last.fs
                /\ fdt' = r.last.fdt
                /\ hostlog' = r.log
        /\ reply' = NoReply
        /\ UNCHANGED <<sem, held, pc, pend, guestVars, live>>

\* char ime[50]
ImeSize == 50

\* opened_file_op_name: ime[cnt++] = data, cnt not compared with the size
\* of ime.  A store at ime[50] or beyond is outside the array: the byte
\* lands behind it and the engine goes on, or the process dies.
OpenedFileOpName(g, data) ==
    LET cf == current_file[g]
        n == heap[cf].cnt
        stored == [heap EXCEPT ![cf].cnt = n + 1,
                               ![cf].ime = IF n < Len(@) THEN [@ EXCEPT ![n + 1] = data]
                                                         ELSE Append(@, data)]
    IN  /\ NoOutput
        /\ UNCHANGED <<sem, held, pend, guestVars, live, hostVars>>
        /\ IF n < ImeSize
           THEN heap' = stored /\ UNCHANGED pc
           ELSE \E outcome \in {"abort", "goes on"} :
                   IF outcome = "abort"
                   THEN pc' = [h \in Guests |-> "aborted"] /\ UNCHANGED heap
                   ELSE heap' = stored /\ UNCHANGED pc

OpenedFileOpSendFd(g) ==
    /\ reply' = Stored(heap[current_file[g]].fd)
    /\ hostlog' = {}
    /\ EndFileOperation(g)

(***************************************************************************)
(* CLOSE, READ and WRITE.                                                  *)
(***************************************************************************)
\* the scan of get_file_descriptor; it never ends on a cyclic list that
\* holds no match
GetFileDescriptor(g, data) ==
    LET l == ListFrom(heap, file_head[g])
        a == FindFd(heap, l, 1, data)
    IN  /\ current_file' = IF a # NULL THEN [current_file EXCEPT ![g] = a]
                                       ELSE current_file
        /\ pc' = IF a = NULL /\ Cyclic(heap, file_head[g])
                 THEN [pc EXCEPT ![g] = "hung"] ELSE pc
        /\ NoOutput
        /\ UNCHANGED <<sem, held, pend, lock, file_head, file_indirect, heap, live,
                       hostVars>>

\* close_op_status that closes the descriptor and leaves the record where
\* it is
CloseOpStatusKeepsRecord(g) ==
    LET cf == current_file[g]
        c == IF cf = NULL THEN [ret |-> -1, fdt |-> fdt] ELSE HostClose(fdt, heap[cf].fd)
    IN  /\ fdt' = c.fdt
        /\ hostlog' = IF c.ret = 0
                      THEN {[g |-> g, path |-> fdt[heap[cf].fd].path, op |-> "close"]}
                      ELSE {}
        /\ reply' = Stored(c.ret)
        /\ UNCHANGED <<sem, held, pend, lock, file_indirect, current_file, fs, file_head,
                       heap, live, pc>>

\* close_op_status.  free of a record that is already free is undefined:
\* the allocator aborts the process, or goes on.
CloseOpStatus(g) ==
    LET cf == current_file[g]
        c == IF cf = NULL THEN [ret |-> -1, fdt |-> fdt] ELSE HostClose(fdt, heap[cf].fd)
        l == ListFrom(heap, file_head[g])
        i == IndexOf(l, 1, cf)
        unlinked == IF i <= 1 THEN heap
                    ELSE [heap EXCEPT ![l[i - 1]].next = heap[cf].next]
    IN  /\ fdt' = c.fdt
        /\ hostlog' = IF c.ret = 0
                      THEN {[g |-> g, path |-> fdt[heap[cf].fd].path, op |-> "close"]}
                      ELSE {}
        /\ UNCHANGED <<sem, held, pend, lock, file_indirect, current_file, fs>>
        /\ IF i = 0 /\ Cyclic(heap, file_head[g])
           THEN /\ pc' = [pc EXCEPT ![g] = "hung"]
                /\ reply' = NoReply
                /\ UNCHANGED <<file_head, heap, live>>
           ELSE /\ file_head' = IF i = 1 THEN [file_head EXCEPT ![g] = heap[cf].next]
                                         ELSE file_head
                /\ reply' = Stored(c.ret)
                /\ IF cf = NULL
                   THEN UNCHANGED <<heap, live, pc>>
                   ELSE IF cf \in live
                   THEN /\ live' = live \ {cf}
                        /\ \E v \in FreedFd(heap[cf].fd) : heap' = FreeRec(unlinked, cf, v)
                        /\ UNCHANGED pc
                   ELSE /\ UNCHANGED live
                        /\ heap' = unlinked
                        /\ \E outcome \in {"abort", "goes on"} :
                               pc' = IF outcome = "abort"
                                     THEN [h \in Guests |-> "aborted"] ELSE pc

\* read_file that hands the guest c whatever read(2) returned
ReadFileUnchecked(g) ==
    LET cf == current_file[g]
        r == HostRead(fs, fdt, heap[cf].fd)
    IN  /\ IF cf = NULL
           THEN /\ reply' = Stored(ToByte(EOF))
                /\ UNCHANGED fdt
           ELSE /\ reply' = Stored(r.c)
                /\ fdt' = r.fdt
        /\ hostlog' = {}
        /\ UNCHANGED <<sem, held, pc, pend, guestVars, heap, live, fs>>

\* read_file
ReadFile(g) ==
    LET cf == current_file[g]
        r == HostRead(fs, fdt, heap[cf].fd)
    IN  /\ IF cf = NULL
           THEN /\ reply' = Stored(ToByte(EOF))
                /\ UNCHANGED fdt
           ELSE /\ reply' = Stored(IF r.ret = 1 THEN r.c ELSE ToByte(EOF))
                /\ fdt' = r.fdt
        /\ hostlog' = {}
        /\ UNCHANGED <<sem, held, pc, pend, guestVars, heap, live, fs>>

WriteFile(g, data) ==
    LET cf == current_file[g]
        w == HostWrite(fs, fdt, heap[cf].fd, data)
    IN  /\ IF cf = NULL
           THEN /\ reply' = Stored(ToByte(EOF))
                /\ hostlog' = {}
                /\ UNCHANGED hostVars
           ELSE /\ reply' = NoReply
                /\ fs' = w.fs
                /\ fdt' = w.fdt
                /\ hostlog' = IF w.ret = 1
                              THEN {[g |-> g, path |-> fdt[heap[cf].fd].path,
                                     op |-> "modify"]}
                              ELSE {}
        /\ UNCHANGED <<sem, held, pc, pend, guestVars, heap, live>>


(***************************************************************************)
(* handle_file: one exit on port 0x278.  m is what the run region says of  *)
(* the instruction: its direction, its width and, for an OUT, its data.    *)
(***************************************************************************)
Out4(d) == [dir |-> "out", size |-> 4, data |-> d]
Out1(b) == [dir |-> "out", size |-> 1, data |-> b]
In4 == [dir |-> "in", size |-> 4, data |-> 0]
In1 == [dir |-> "in", size |-> 1, data |-> 0]

\* no branch of handle_file takes the exit: nothing changes
Unhandled(g) ==
    UNCHANGED <<sem, held, pc, pend, guestVars, heap, live, hostVars, reply, hostlog>>

\* handle_file that ends the operation at every dword FINISH, the one sent
\* with lock == 0 included
HandleFileFinishAnywhere(g, m) ==
    IF m.dir = "out" /\ m.size = 4
    THEN IF m.data = FINISH /\ lock[g] # OPEN THEN NoOutput /\ EndFileOperation(g)
         ELSE IF lock[g] = 0 THEN NoOutput /\ SemWait(g, m.data)
         ELSE IF lock[g] = OPEN THEN OpenedFileOpFlags(g, m.data)
         ELSE GetFileDescriptor(g, m.data)
    ELSE IF m.dir = "out" /\ m.size = 1
    THEN IF lock[g] = OPEN THEN OpenedFileOpName(g, m.data)
         ELSE IF lock[g] = WRITE THEN WriteFile(g, m.data)
         ELSE Unhandled(g)
    ELSE IF m.dir = "in" /\ m.size = 4
    THEN IF lock[g] = CLOSE THEN CloseOpStatus(g)
         ELSE IF lock[g] = OPEN THEN OpenedFileOpSendFd(g)
         ELSE Unhandled(g)
    ELSE IF m.dir = "in" /\ m.size = 1 /\ lock[g] = READ THEN ReadFile(g)
    ELSE Unhandled(g)

HandleFile(g, m) ==
    IF m.dir = "out" /\ m.size = 4
    THEN IF lock[g] = 0 THEN NoOutput /\ SemWait(g, m.data)
         ELSE IF lock[g] = OPEN THEN OpenedFileOpFlags(g, m.data)
         ELSE IF m.data = FINISH THEN NoOutput /\ EndFileOperation(g)
         ELSE GetFileDescriptor(g, m.data)
    ELSE IF m.dir = "out" /\ m.size = 1
    THEN IF lock[g] = OPEN THEN OpenedFileOpName(g, m.data)
         ELSE IF lock[g] = WRITE THEN WriteFile(g, m.data)
         ELSE Unhandled(g)
    ELSE IF m.dir = "in" /\ m.size = 4
    THEN IF lock[g] = CLOSE THEN CloseOpStatus(g)
         ELSE IF lock[g] = OPEN THEN OpenedFileOpSendFd(g)
         ELSE Unhandled(g)
    ELSE IF m.dir = "in" /\ m.size = 1 /\ lock[g] = READ THEN ReadFile(g)
    ELSE Unhandled(g)

\* which function of the engine handle_file dispatches the exit to, and for
\* the path resolution what it finds on the host; an exit that handle_file
\* ignores leaves ev as it is
EventOf(g, m) ==
    LET cf == current_file[g]
        fin == m.data = FINISH
    IN
    IF m.dir = "out" /\ m.size = 4
    THEN IF lock[g] = 0 THEN [g |-> g, kind |-> "sem_wait", fin |-> fin]
         ELSE IF lock[g] = OPEN
              THEN IF heap[cf].flags = -1
                   THEN [g |-> g, kind |-> "flags", fin |-> fin]
                   ELSE [g |-> g, kind |-> "resolve", fin |-> fin,
                         flags |-> heap[cf].flags,
                         name |-> CString(heap[cf].ime),
                         oldfd |-> heap[cf].fd,
                         path |-> SandboxPath(Id(g), heap[cf].ime),
                         sandbox |-> SandboxPath(Id(g), heap[cf].ime) \in DOMAIN fs,
                         plain |-> CString(heap[cf].ime) \in DOMAIN fs]
         ELSE IF m.data = FINISH THEN [g |-> g, kind |-> "finish", fin |-> TRUE]
         ELSE [g |-> g, kind |-> "get_fd", fin |-> FALSE]
    ELSE IF m.dir = "out" /\ m.size = 1
    THEN IF lock[g] = OPEN THEN [g |-> g, kind |-> "name", fin |-> FALSE]
         ELSE IF lock[g] = WRITE THEN [g |-> g, kind |-> "write", fin |-> FALSE]
         ELSE ev
    ELSE IF m.dir = "in" /\ m.size = 4
    THEN IF lock[g] = CLOSE THEN [g |-> g, kind |-> "close_status", fin |-> FALSE, file |-> cf]
         ELSE IF lock[g] = OPEN THEN [g |-> g, kind |-> "send_fd", fin |-> FALSE]
         ELSE ev
    ELSE IF m.dir = "in" /\ m.size = 1 /\ lock[g] = READ
    THEN [g |-> g, kind |-> "read", fin |-> FALSE]
    ELSE ev

(***************************************************************************)
(* Guests that may execute any port-0x278 instruction at any time.         *)
(* The values they send are drawn from small sets: the operation codes;    *)
(* as flags 0 (O_RDONLY) and -1 (what init_file leaves in flags), as mode  *)
(* 0 (which is also FINISH); FINISH, the descriptor numbers and -1 (what   *)
(* init_file leaves in fd); the names of Names, byte by byte (a guest may  *)
(* stop in the middle of a name); the bytes of Bytes as file data.  The    *)
(* guests send at most MaxOps operation codes between them.                *)
(***************************************************************************)
NameA == <<97>>
Names == {NameA}
Bytes == {104}
Opcodes == {FINISH, OPEN, CLOSE, READ, WRITE}
\* a dword that is no operation code
NoOpcode == 5
\* the dwords a guest sends as operation code
OpWords == Opcodes \cup {NoOpcode}
FlagWords == {-1, 0}
ModeWords == {0}
FdWords == {-1, FINISH} \cup FdRange

RECURSIVE Range(_)
Range(q) == IF q = <<>> THEN {} ELSE {Head(q)} \cup Range(Tail(q))
NameBytes == {0} \cup UNION {Range(n) : n \in Names}

NameByteOk(g, b) ==
    LET r == heap[current_file[g]]
        sent == Append(SubSeq(r.ime, 1, r.cnt), b)
    IN  r.cnt <= Len(r.ime) /\ \E n \in Names : IsPrefix(sent, Append(n, 0))

\* malloc of the model has MaxRec records to give: a guest sends OPEN only
\* when one is left for it
HeapRoom ==
    Cardinality(live) + Cardinality({h \in Guests : pc[h] = "wait" /\ pend[h] = OPEN})
        < MaxRec

Messages(g) ==
    {Out4(d) : d \in IF lock[g] = 0
                     THEN (IF nops < MaxOps
                           THEN (IF HeapRoom THEN OpWords ELSE OpWords \ {OPEN})
                           ELSE {})
                       ELSE IF lock[g] # OPEN THEN FdWords
                       ELSE IF heap[current_file[g]].flags = -1 THEN FlagWords
                       ELSE ModeWords}
        \cup {In4, In1}
        \cup (IF lock[g] = OPEN THEN {Out1(b) : b \in {c \in NameBytes : NameByteOk(g, c)}}
              ELSE IF lock[g] = WRITE THEN {Out1(b) : b \in Bytes}
              ELSE {Out1(0)})

\* exit_io for port 0x278
ExitIo(g) ==
    /\ pc[g] = "run"
    /\ \E m \in Messages(g) :
          /\ HandleFile(g, m)
          /\ ev' = EventOf(g, m)
          /\ nops' = IF m.dir = "out" /\ m.size = 4 /\ lock[g] = 0 THEN nops + 1 ELSE nops
    /\ UNCHANGED <<lib, bootVars>>

\* exit_halt as it would be if it gave the permit of file_mutex back
ExitHaltPosting(g) ==
    /\ pc[g] = "run"
    /\ lock[g] # 0
    /\ pc' = [pc EXCEPT ![g] = "halted"]
    /\ sem' = sem + held[g]
    /\ held' = [held EXCEPT ![g] = 0]
    /\ ev' = [g |-> g, kind |-> "hlt", fin |-> FALSE]
    /\ NoOutput
    /\ UNCHANGED <<pend, guestVars, heap, live, hostVars, lib, nops, bootVars>>

\* exit_halt: the run loop ends with result 1.  The halts of the model are
\* those in the middle of an operation.
ExitHalt(g) ==
    /\ pc[g] = "run"
    /\ lock[g] # 0
    /\ pc' = [pc EXCEPT ![g] = "halted"]
    /\ ev' = [g |-> g, kind |-> "hlt", fin |-> FALSE]
    /\ NoOutput
    /\ UNCHANGED <<sem, held, pend, guestVars, heap, live, hostVars, lib, nops,
                   bootVars>>


(***************************************************************************)
(* The guest library (src/nivoC/guest.c): open, close, read and write, one *)
(* port instruction per step.  A guest's program is a sequence of calls; a *)
(* descriptor argument is the value an earlier call returned, or a number. *)
(*   prog   the calls                                                      *)
(*   ip     the call that is executing (Len(prog) + 1: the final hlt loop) *)
(*   step   how many port instructions of the call have been executed      *)
(*   cur    locals of the call: status of close, buf and the break of the  *)
(*          loop of read, and the path the engine built for an open        *)
(*   done   return value, buf and path of the calls that have returned     *)
(***************************************************************************)
Ret(k) == [k |-> "ret", v |-> k]
Lit(n) == [k |-> "lit", v |-> n]
OpenCall(n, f, m) ==
    [op |-> "open", name |-> n, flags |-> f, mode |-> m, fd |-> Lit(0), buf |-> <<>>, count |-> 0]
CloseCall(fd) ==
    [op |-> "close", name |-> <<>>, flags |-> 0, mode |-> 0, fd |-> fd, buf |-> <<>>, count |-> 0]
ReadCall(fd, n) ==
    [op |-> "read", name |-> <<>>, flags |-> 0, mode |-> 0, fd |-> fd, buf |-> <<>>, count |-> n]
WriteCall(fd, b) ==
    [op |-> "write", name |-> <<>>, flags |-> 0, mode |-> 0, fd |-> fd, buf |-> b, count |-> Len(b)]

NoLocals == [status |-> 0, buf |-> <<>>, brk |-> FALSE, path |-> <<>>]
LibStart(p) == [prog |-> p, ip |-> 1, step |-> 0, cur |-> NoLocals, done |-> <<>>]

FdArg(L, c) == IF c.fd.k = "ret" THEN L.done[c.fd.v].ret ELSE c.fd.v

\* the port instruction the call executes next
LibOpen(L, c) ==
    IF L.step = 0 THEN Out4(OPEN)
    ELSE IF L.step <= Len(c.name) THEN Out1(c.name[L.step])
    ELSE IF L.step = Len(c.name) + 1 THEN Out1(0)
    ELSE IF L.step = Len(c.name) + 2 THEN Out4(c.flags)
    ELSE IF L.step = Len(c.name) + 3 THEN Out4(c.mode)
    ELSE In4

LibClose(L, c) ==
    IF L.step = 0 THEN Out4(CLOSE)
    ELSE IF L.step = 1 THEN Out4(FdArg(L, c))
    ELSE IF L.step = 2 THEN In4
    ELSE Out4(FINISH)

LibRead(L, c) ==
    IF L.step = 0 THEN Out4(READ)
    ELSE IF L.step = 1 THEN Out4(FdArg(L, c))
    ELSE IF Len(L.cur.buf) < c.count /\ ~L.cur.brk THEN In1
    ELSE Out4(FINISH)

LibWrite(L, c) ==
    IF L.step = 0 THEN Out4(WRITE)
    ELSE IF L.step = 1 THEN Out4(FdArg(L, c))
    ELSE IF L.step - 2 < c.count THEN Out1(c.buf[L.step - 1])
    ELSE Out4(FINISH)

LibMsg(L) ==
    LET c == L.prog[L.ip] IN
    IF c.op = "open" THEN LibOpen(L, c)
    ELSE IF c.op = "close" THEN LibClose(L, c)
    ELSE IF c.op = "read" THEN LibRead(L, c)
    ELSE LibWrite(L, c)

\* the call returns r
LibReturn(L, r) ==
    [L EXCEPT !.ip = @ + 1, !.step = 0, !.cur = NoLocals,
              !.done = Append(@, [ret |-> r, buf |-> L.cur.buf, path |-> L.cur.path])]

\* the library after the instruction m; v is what an IN has read, e the
\* function of the engine that handled the exit
LibAfter(L, m, v, e) ==
    LET c == L.prog[L.ip]
        N == [L EXCEPT !.step = @ + 1]
    IN  IF c.op = "open"
        THEN IF m = In4 THEN LibReturn(L, v)
             ELSE IF e.kind = "resolve" THEN [N EXCEPT !.cur.path = e.path]
             ELSE N
        ELSE IF c.op = "close"
        THEN IF m = In4 THEN [N EXCEPT !.cur.status = v]
             ELSE IF L.step = 3 THEN LibReturn(L, L.cur.status)
             ELSE N
        ELSE IF c.op = "read"
        THEN IF m = In1
             THEN IF ToChar(v) = EOF THEN [N EXCEPT !.cur.brk = TRUE]
                  ELSE [N EXCEPT !.cur.buf = Append(@, v)]
             ELSE IF L.step >= 2 THEN LibReturn(L, Len(L.cur.buf))
             ELSE N
        ELSE IF L.step >= 2 /\ m.size = 4 THEN LibReturn(L, c.count)
             ELSE N

\* whether handle_file stores a value for the IN
StoresValue(g, m) ==
    /\ m.dir = "in"
    /\ \/ m.size = 4 /\ lock[g] \in {CLOSE, OPEN}
       \/ m.size = 1 /\ lock[g] = READ

\* what an IN reads when handle_file has stored nothing: what the run region
\* held before
StaleData == {0, ToByte(EOF)}

\* exit_io for port 0x278, the instruction being the library's next one
LibExitIo(g) ==
    /\ pc[g] = "run"
    /\ lib[g].ip <= Len(lib[g].prog)
    /\ LET m == LibMsg(lib[g]) IN
          /\ (m = Out4(OPEN) /\ lock[g] = 0) => HeapRoom
          /\ HandleFile(g, m)
          /\ ev' = EventOf(g, m)
          /\ \E v \in IF m.dir = "out" THEN {0}
                      ELSE IF StoresValue(g, m) THEN {reply'.val}
                      ELSE StaleData :
                 lib' = [lib EXCEPT ![g] = LibAfter(lib[g], m, v, EventOf(g, m))]
    /\ UNCHANGED <<nops, bootVars>>

\* exit_halt at the hlt loop that ends the program
LibExitHalt(g) ==
    /\ pc[g] = "run"
    /\ lib[g].ip > Len(lib[g].prog)
    /\ pc' = [pc EXCEPT ![g] = "halted"]
    /\ ev' = [g |-> g, kind |-> "hlt", fin |-> FALSE]
    /\ NoOutput
    /\ UNCHANGED <<sem, held, pend, guestVars, heap, live, hostVars, lib, nops,
                   bootVars>>

(***************************************************************************)
(* The creation of the guests: main's loop over the guest images, the      *)
(* creation sequence of init_guest and the long-mode bootstrap.            *)
(* A call of the kernel (ioctl, mmap) either succeeds or fails; which, is  *)
(* an input of the step.  init_guest returns -1 at the first call that     *)
(* fails, and main then leaves with exit(EXIT_FAILURE).                    *)
(* pthread_create is taken to succeed.                                     *)
(***************************************************************************)
MaxVms == 3
MaxMem2MB == 3
BootGuests == 0 .. MaxVms - 1

PDE64_PRESENT == 1
PDE64_RW == 2
PDE64_USER == 4
PDE64_PS == 128
SIZE2MB == 2097152
MB2 == 0
KB4 == 1
pml4_addr == 0
pdpt_addr == 4096
pd_addr == 8192
FirstPage == 12288
PageBytes == 4096
EntryBytes == 8
PtEntries == 512

\* --memory is a multiple of 2 MiB, and at least 2 MiB
MemSizes == {k * SIZE2MB : k \in 1 .. MaxMem2MB}

\* a | b on non-negative integers
RECURSIVE BitOr(_, _)
BitOr(a, b) ==
    IF a = 0 THEN b
    ELSE IF b = 0 THEN a
    ELSE (IF a % 2 = 1 \/ b % 2 = 1 THEN 1 ELSE 0) + 2 * BitOr(a \div 2, b \div 2)

\* a & ~0xFFF
PageBase(a) == a - (a % PageBytes)

EmptyMem == [a \in {} |-> 0]
\* *(uint64_t*)(vm->mem + a) = v, and the word read back
Store(m, a, v) == (a :> v) @@ m
Load(m, a) == IF a \in DOMAIN m THEN m[a] ELSE 0

\* entries that user mode may not use
EntryFlagsNoUser == BitOr(PDE64_PRESENT, PDE64_RW)
\* PDE64_PRESENT | PDE64_RW | PDE64_USER
EntryFlags == BitOr(BitOr(PDE64_PRESENT, PDE64_RW), PDE64_USER)

\* the page left where it is
AlignPageNot(page) == page

\* page = (page / SIZE2MB + 1) * SIZE2MB
AlignPage(page) == (page \div SIZE2MB + 1) * SIZE2MB

\* a loop that writes one entry for each 2 MiB of mem_size
RECURSIVE FillPd2MAll(_, _, _, _)
FillPd2MAll(m, i, page_address, size) ==
    IF i < size \div SIZE2MB
    THEN FillPd2MAll(Store(m, pd_addr + EntryBytes * i,
                           BitOr(BitOr(EntryFlags, PDE64_PS), page_address)),
                     i + 1, page_address + SIZE2MB, size)
    ELSE m

\* for (i = 0; i < mem_size / SIZE2MB - 1; i++) pd[i] = ... | PDE64_PS | page_address
\* (MemSizes has no size below SIZE2MB, for which the unsigned bound wraps)
RECURSIVE FillPd2M(_, _, _, _)
FillPd2M(m, i, page_address, size) ==
    IF i < size \div SIZE2MB - 1
    THEN FillPd2M(Store(m, pd_addr + EntryBytes * i,
                        BitOr(BitOr(EntryFlags, PDE64_PS), page_address)),
                  i + 1, page_address + SIZE2MB, size)
    ELSE m

\* a loop that puts every page table at the same address
RECURSIVE FillPd4KSame(_, _, _, _)
FillPd4KSame(m, i, page, size) ==
    IF i < size \div SIZE2MB
    THEN FillPd4KSame(Store(m, pd_addr + EntryBytes * i, BitOr(EntryFlags, FirstPage)),
                      i + 1, page + PageBytes, size)
    ELSE [mem |-> m, page |-> page]

\* for (i = 0; i < mem_size / SIZE2MB; i++) { pd[i] = ... | page; page += 0x1000; }
RECURSIVE FillPd4K(_, _, _, _)
FillPd4K(m, i, page, size) ==
    IF i < size \div SIZE2MB
    THEN FillPd4K(Store(m, pd_addr + EntryBytes * i, BitOr(EntryFlags, page)),
                  i + 1, page + PageBytes, size)
    ELSE [mem |-> m, page |-> page]

\* for (j = 0; j < 512; j++) { if (page_address > mem_size) break; pt[j] = ...; }
\* Reached are the iterations before the first one that breaks; iteration j
\* writes pt[j] = (page_address + j * 0x1000) | PRESENT | RW | USER.
FillPt(m, pt, page_address, size) ==
    LET reached == {j \in 0 .. PtEntries - 1 :
                       \A k \in 0 .. j : ~(page_address + k * PageBytes > size)}
        written == [a \in {pt + EntryBytes * j : j \in reached} |->
                       BitOr(page_address + ((a - pt) \div EntryBytes) * PageBytes,
                             EntryFlags)]
    IN  [mem |-> written @@ m,
         page_address |-> page_address + Cardinality(reached) * PageBytes]

\* for (i = 0; i < mem_size / SIZE2MB; i++) { pt = pd[i] & ~0xFFF; ... }
RECURSIVE FillPts(_, _, _, _)
FillPts(m, i, page_address, size) ==
    IF i < size \div SIZE2MB
    THEN LET r == FillPt(m, PageBase(Load(m, pd_addr + EntryBytes * i)),
                         page_address, size)
         IN  FillPts(r.mem, i + 1, r.page_address, size)
    ELSE m

\* setup_long_mode that under KB4 returns the page it started from, the
\* address of the first page table
PageTablesReturnsFirstPage(m, size, ps) ==
    LET m1 == Store(m, pml4_addr, BitOr(EntryFlags, pdpt_addr))
        m2 == Store(m1, pdpt_addr, BitOr(EntryFlags, pd_addr))
        big == AlignPage(FirstPage)
        pd4 == FillPd4K(m2, 0, FirstPage, size)
    IN  IF ps = MB2
        THEN [mem |-> FillPd2M(m2, 0, big, size), page |-> big]
        ELSE [mem |-> FillPts(pd4.mem, 0, pd4.page, size), page |-> FirstPage]

\* regs.rip = 0
Rip == 0

\* what setup_long_mode writes to the guest's memory, and the page it returns
PageTables(m, size, ps) ==
    LET m1 == Store(m, pml4_addr, BitOr(EntryFlags, pdpt_addr))
        m2 == Store(m1, pdpt_addr, BitOr(EntryFlags, pd_addr))
        big == AlignPage(FirstPage)
        pd4 == FillPd4K(m2, 0, FirstPage, size)
    IN  IF ps = MB2
        THEN [mem |-> FillPd2M(m2, 0, big, size), page |-> big]
        ELSE [mem |-> FillPts(pd4.mem, 0, pd4.page, size), page |-> pd4.page]

\* The 4-level walk of the processor from CR3 = pml4_addr for a virtual
\* address below 2^31: the guest-physical address, or -1 for a page fault.
Present(e) == HasBit(e, PDE64_PRESENT)
Translate(m, v) ==
    LET e4 == Load(m, pml4_addr + EntryBytes * (((v \div 1073741824) \div 512) % 512))
        e3 == Load(m, PageBase(e4) + EntryBytes * ((v \div 1073741824) % 512))
        e2 == Load(m, PageBase(e3) + EntryBytes * ((v \div SIZE2MB) % 512))
        e1 == Load(m, PageBase(e2) + EntryBytes * ((v \div PageBytes) % 512))
    IN  IF ~Present(e4) \/ ~Present(e3) \/ ~Present(e2) THEN -1
        ELSE IF HasBit(e2, PDE64_PS)
        THEN (e2 - (e2 % SIZE2MB)) + (v % SIZE2MB)
        ELSE IF ~Present(e1) THEN -1
        ELSE PageBase(e1) + (v % PageBytes)

Held(g, S) == {<<g, r>> : r \in S}

\* init_guest leaves at the first failure, and main at the first -1
Returned == boot_pc' = "returned" /\ UNCHANGED <<main_i, incId, id, starting_address>>
Goes(next) == boot_pc' = next /\ UNCHANGED <<main_i, incId, id, starting_address>>

CreateGuest ==
    /\ boot_pc = "create_guest"
    /\ \E ok \in BOOLEAN :
          IF ok THEN acquired' = acquired \cup Held(main_i, {"vm_fd"})
                     /\ Goes("create_memory_region")
                ELSE UNCHANGED acquired /\ Returned
    /\ UNCHANGED <<mem_size, page_size, mem, engineVars>>

CreateMemoryRegion ==
    /\ boot_pc = "create_memory_region"
    /\ \E failing \in {"none", "mmap", "ioctl"} :
          \/ failing = "none"
             /\ acquired' = acquired \cup Held(main_i, {"mem", "slot"})
             /\ Goes("create_vcpu")
          \/ failing = "mmap" /\ UNCHANGED acquired /\ Returned
          \/ failing = "ioctl"
             /\ acquired' = acquired \cup Held(main_i, {"mem"})
             /\ Returned
    /\ UNCHANGED <<mem_size, page_size, mem, engineVars>>

CreateVcpu ==
    /\ boot_pc = "create_vcpu"
    /\ \E ok \in BOOLEAN :
          IF ok THEN acquired' = acquired \cup Held(main_i, {"vm_vcpu"})
                     /\ Goes("create_kvm_run")
                ELSE UNCHANGED acquired /\ Returned
    /\ UNCHANGED <<mem_size, page_size, mem, engineVars>>

CreateKvmRun ==
    /\ boot_pc = "create_kvm_run"
    /\ \E ok \in BOOLEAN :
          IF ok THEN acquired' = acquired \cup Held(main_i, {"kvm_run"})
                     /\ Goes("setup_long_mode")
                ELSE UNCHANGED acquired /\ Returned
    /\ UNCHANGED <<mem_size, page_size, mem, engineVars>>

SetupLongMode ==
    /\ boot_pc = "setup_long_mode"
    /\ LET r == PageTables(mem[main_i], mem_size, page_size)
       IN  \E failing \in {"none", "get_sregs", "set_sregs"} :
              \/ failing = "none"
                 /\ mem' = [mem EXCEPT ![main_i] = r.mem]
                 /\ starting_address' = r.page
                 /\ boot_pc' = "setup_registers"
                 /\ UNCHANGED <<main_i, incId, id>>
              \/ failing = "get_sregs" /\ UNCHANGED mem /\ Returned
              \/ failing = "set_sregs"
                 /\ mem' = [mem EXCEPT ![main_i] = r.mem]
                 /\ Returned
    /\ UNCHANGED <<mem_size, page_size, acquired, engineVars>>

SetupRegisters ==
    /\ boot_pc = "setup_registers"
    /\ \E ok \in BOOLEAN : IF ok THEN Goes("init_fields") ELSE Returned
    /\ UNCHANGED <<mem_size, page_size, acquired, mem, engineVars>>

\* vm->id = incId, and incId is left as it was
InitGuestFieldsSameId ==
    /\ boot_pc = "init_fields"
    /\ id' = [id EXCEPT ![main_i] = incId]
    /\ boot_pc' = "start_guest"
    /\ UNCHANGED <<mem_size, page_size, main_i, incId, acquired, mem, starting_address,
                   engineVars>>

\* the last statements of init_guest: lock, file_head, file_indirect and
\* current_file get the values they have in Init, and vm->id = incId++
InitGuestFields ==
    /\ boot_pc = "init_fields"
    /\ id' = [id EXCEPT ![main_i] = incId]
    /\ incId' = incId + 1
    /\ boot_pc' = "start_guest"
    /\ UNCHANGED <<mem_size, page_size, main_i, acquired, mem, starting_address,
                   engineVars>>

\* start_guest copies the image to mem + starting_address and starts the
\* thread: with starting_address >= mem_size the copy writes outside the
\* mapping, which ends the process or goes unnoticed
StartGuest ==
    /\ boot_pc = "start_guest"
    /\ \/ /\ main_i' = main_i + 1
          /\ boot_pc' = IF main_i + 1 = MaxVms THEN "join" ELSE "create_guest"
       \/ /\ starting_address >= mem_size
          /\ boot_pc' = "crashed"
          /\ UNCHANGED main_i
    /\ UNCHANGED <<mem_size, page_size, incId, id, acquired, mem, starting_address,
                   engineVars>>

\* exit(EXIT_FAILURE): the process ends, and with it all it held
ExitFailure ==
    /\ boot_pc = "returned"
    /\ boot_pc' = "exited"
    /\ acquired' = {}
    /\ UNCHANGED <<mem_size, page_size, main_i, incId, id, mem, starting_address,
                   engineVars>>

\* The boot variables once main has started the guests of Guests with
\* --memory 4 --page 2.
Booted ==
    /\ mem_size = 2 * SIZE2MB
    /\ page_size = MB2
    /\ main_i = Cardinality(Guests)
    /\ boot_pc = "join"
    /\ incId = Cardinality(Guests)
    /\ id = [g \in Guests |-> g]
    /\ acquired = UNION {Held(g, {"vm_fd", "mem", "slot", "vm_vcpu", "kvm_run"}) : g \in Guests}
    /\ mem = [g \in Guests |-> PageTables(EmptyMem, 2 * SIZE2MB, MB2).mem]
    /\ starting_address = AlignPage(FirstPage)

EmptyFs == [p \in {} |-> <<>>]
SeedFs == (NameA :> <<104>>)

Init ==
    /\ sem = 1
    /\ held = [g \in Guests |-> 0]
    /\ lock = [g \in Guests |-> 0]
    /\ file_head = [g \in Guests |-> NULL]
    /\ file_indirect = [g \in Guests |-> NULL]
    /\ current_file = [g \in Guests |-> NULL]
    /\ heap = [a \in Addrs |-> FreshRec]
    /\ live = {}
    /\ pc = [g \in Guests |-> "run"]
    /\ pend = [g \in Guests |-> 0]
    /\ fs = SeedFs
    /\ fdt = [f \in FdRange |-> ClosedFd]
    /\ ev = [g |-> 0, kind |-> "none", fin |-> FALSE]
    /\ reply = NoReply
    /\ hostlog = {}
    /\ lib = [g \in Guests |-> LibStart(<<>>)]
    /\ nops = 0
    /\ Booted

Next ==
    \E g \in Guests :
        \/ ExitIo(g)
        \/ StartFileOperation(g)
        \/ EndFileOperationClear(g)
        \/ ExitHalt(g)

Spec == Init /\ [][Next]_vars


(***************************************************************************)
(* Guests that run programs written with the library.  The programs, and   *)
(* the files that are on the host when the monitor starts, are drawn from  *)
(* small sets.                                                             *)
(***************************************************************************)
NameVm1A == SandboxPath(1, NameA)
LongName(n) == [i \in 1 .. n |-> 97]
LNames == {NameA, NameVm1A}
WCT == O_WRONLY + O_CREAT + O_TRUNC
LFlags == {0, O_CREAT, O_CREAT + O_EXCL, O_WRONLY, WCT}
Bufs == {<<104>>, <<255>>, <<104, 105>>}

RoundTrip(n, wf, b, rf, cnt) ==
    <<OpenCall(n, wf, 0), WriteCall(Ret(1), b), CloseCall(Ret(1)),
      OpenCall(n, rf, 0), ReadCall(Ret(4), cnt)>>

Programs(g) ==
    IF g = 0
    THEN {<<>>}
         \cup {<<OpenCall(n, f, 0)>> : n \in LNames, f \in LFlags}
         \cup {<<OpenCall(NameA, -1, 0)>>}
         \cup {<<OpenCall(LongName(n), WCT, 0)>> : n \in {ImeSize - 1, ImeSize}}
         \cup {<<OpenCall(NameA, 0, 0), CloseCall(Lit(k))>> : k \in {FINISH, MaxFd}}
         \cup {<<OpenCall(NameA, WCT, 0), OpenCall(NameA, f, 0)>> : f \in LFlags}
         \cup {<<OpenCall(NameA, f, 0), WriteCall(Ret(1), <<104>>), CloseCall(Ret(1))>> :
                  f \in LFlags}
         \cup {RoundTrip(NameA, WCT, b, 0, cnt) : b \in Bufs, cnt \in 1 .. MaxFileLen}
    ELSE {<<>>,
          <<OpenCall(NameA, 0, 0)>>,
          <<OpenCall(NameA, WCT, 0), WriteCall(Ret(1), <<105>>), CloseCall(Ret(1))>>}

LibSeeds == {EmptyFs, SeedFs, (NameVm1A :> <<105>>)}

LibInit ==
    /\ sem = 1
    /\ held = [g \in Guests |-> 0]
    /\ lock = [g \in Guests |-> 0]
    /\ file_head = [g \in Guests |-> NULL]
    /\ file_indirect = [g \in Guests |-> NULL]
    /\ current_file = [g \in Guests |-> NULL]
    /\ heap = [a \in Addrs |-> FreshRec]
    /\ live = {}
    /\ pc = [g \in Guests |-> "run"]
    /\ pend = [g \in Guests |-> 0]
    /\ fs \in LibSeeds
    /\ fdt = [f \in FdRange |-> ClosedFd]
    /\ ev = [g |-> 0, kind |-> "none", fin |-> FALSE]
    /\ reply = NoReply
    /\ hostlog = {}
    /\ \E p0 \in Programs(0), p1 \in Programs(1) :
          lib = [g \in Guests |-> LibStart(IF g = 0 THEN p0 ELSE p1)]
    /\ nops = 0
    /\ Booted

LibNext ==
    \E g \in Guests :
        \/ LibExitIo(g)
        \/ StartFileOperation(g)
        \/ EndFileOperationClear(g)
        \/ LibExitHalt(g)

LibSpec == LibInit /\ [][LibNext]_vars

(***************************************************************************)
(* main from sem_init to the start of the last guest.                      *)
(***************************************************************************)
BootInit ==
    /\ sem = 1
    /\ held = [g \in Guests |-> 0]
    /\ lock = [g \in Guests |-> 0]
    /\ file_head = [g \in Guests |-> NULL]
    /\ file_indirect = [g \in Guests |-> NULL]
    /\ current_file = [g \in Guests |-> NULL]
    /\ heap = [a \in Addrs |-> FreshRec]
    /\ live = {}
    /\ pc = [g \in Guests |-> "run"]
    /\ pend = [g \in Guests |-> 0]
    /\ fs = EmptyFs
    /\ fdt = [f \in FdRange |-> ClosedFd]
    /\ ev = [g |-> 0, kind |-> "none", fin |-> FALSE]
    /\ reply = NoReply
    /\ hostlog = {}
    /\ lib = [g \in Guests |-> LibStart(<<>>)]
    /\ nops = 0
    /\ mem_size \in MemSizes
    /\ page_size \in {MB2, KB4}
    /\ main_i = 0
    /\ boot_pc = "create_guest"
    /\ incId = 0
    /\ id = [g \in BootGuests |-> Garbage]
    /\ acquired = {}
    /\ mem = [g \in BootGuests |-> EmptyMem]
    /\ starting_address = Garbage

BootNext ==
    \/ CreateGuest
    \/ CreateMemoryRegion
    \/ CreateVcpu
    \/ CreateKvmRun
    \/ SetupLongMode
    \/ SetupRegisters
    \/ InitGuestFields
    \/ StartGuest
    \/ ExitFailure

BootSpec == BootInit /\ [][BootNext]_vars


(***************************************************************************)
(* The run loop (run_guest) with every kind of exit: the guests run        *)
(* library programs, and any exit reason and any I/O port may come up      *)
(* between two instructions of the library.  ev records, for a step of the *)
(* dispatch, the exit reason, the handler that was called ("none" if       *)
(* none), whether the diagnostic of the loop was printed, and the value    *)
(* given to stop.  pc is "error" when the loop has ended with stop = -1    *)
(* and "shutdown" when exit_shutdown has ended it with stop = 1.           *)
(* The handling of port 0x278 is that of LibExitIo, which re-enters the    *)
(* guest; console bytes are not kept.                                      *)
(***************************************************************************)
MaxExitReason == 19
ExitReasons == 0 .. MaxExitReason
PortConsole == 233
PortFile == 632
OtherPorts == {0, PortFile + 1}

\* static Handler handlers[]: entry i is handlers[i + 1] of the sequence
handlers ==
    <<"NULL", "NULL", "exit_io", "NULL", "NULL", "exit_halt",
      "NULL", "NULL", "exit_shutdown", "NULL", "NULL",
      "NULL", "NULL", "NULL", "NULL", "NULL", "NULL",
      "exit_internal_error">>

\* handlers[exit_reason]; the array has Len(handlers) entries and the loop
\* reads it without a check of the index
HandlerOf(r) == IF r < Len(handlers) THEN handlers[r + 1] ELSE "outside"

Dispatched(g, r, called, diag, stop) ==
    [g |-> g, kind |-> "dispatch", fin |-> FALSE, reason |-> r, called |-> called,
     diag |-> diag, stop |-> stop]

\* the loop ends for guest g with stop = -1 or 1, or goes on with stop = 0
Loop(g, e, to) ==
    /\ pc' = [pc EXCEPT ![g] = to]
    /\ ev' = e
    /\ NoOutput
    /\ UNCHANGED <<sem, held, pend, guestVars, heap, live, hostVars, lib, nops,
                   bootVars>>

\* exit_shutdown: printf, return 1
ExitShutdown(g) ==
    /\ pc[g] = "run"
    /\ \E r \in ExitReasons :
          /\ HandlerOf(r) = "exit_shutdown"
          /\ Loop(g, Dispatched(g, r, "exit_shutdown", FALSE, 1), "shutdown")

\* exit_internal_error: printf, return -1
ExitInternalError(g) ==
    /\ pc[g] = "run"
    /\ \E r \in ExitReasons :
          /\ HandlerOf(r) = "exit_internal_error"
          /\ Loop(g, Dispatched(g, r, "exit_internal_error", FALSE, -1), "error")

\* handlers[exit_reason] == NULL: printf("Unknown exit reason"), stop = -1
ExitUnknown(g) ==
    /\ pc[g] = "run"
    /\ \E r \in ExitReasons :
          /\ HandlerOf(r) = "NULL"
          /\ Loop(g, Dispatched(g, r, "none", TRUE, -1), "error")

\* handlers[exit_reason] with exit_reason beyond the array: the word that
\* lies there is NULL (the diagnostic, stop = -1), or it is not and the loop
\* calls it: the process dies in the call, or the call comes back with 0
ExitOutsideTable(g) ==
    /\ pc[g] = "run"
    /\ \E r \in ExitReasons :
          /\ HandlerOf(r) = "outside"
          /\ \/ Loop(g, Dispatched(g, r, "none", TRUE, -1), "error")
             \/ /\ pc' = [h \in Guests |-> "aborted"]
                /\ ev' = Dispatched(g, r, "garbage", FALSE, 0)
                /\ NoOutput
                /\ UNCHANGED <<sem, held, pend, guestVars, heap, live, hostVars, lib,
                               nops, bootVars>>
             \/ Loop(g, Dispatched(g, r, "garbage", FALSE, 0), "run")

\* vm->pty_master.  The guest structure comes from malloc and no statement
\* assigns the field: openpty is called in setup_terminal only, and no
\* function calls setup_terminal.  A read of the field gives some int: one
\* that is no descriptor of the process, or one that is, as the monitor's
\* own standard output
PtyMaster == {Garbage, 1}

\* the pseudoterminal masters the process has opened for guest g
OpenPtys(g) == {}

\* io.size of an exit on a port
IoSizes == {1, 2, 4}

\* the value of char c in exit_io when read(2) has stored nothing in it
Indeterminate == {0, 104, ToByte(EOF)}

\* the byte exit_io stores for an IN from port 0xE9: c, which read(2) has
\* set to b if it returned 1 and has not touched otherwise
ConsoleIn(ret, b, v) == IF ret = 1 THEN b ELSE v

Console(g, r, dir, p, size, c, ret) ==
    Dispatched(g, r, "exit_io", FALSE, 0)
        @@ [port |-> PortConsole, dir |-> dir, fd |-> p, size |-> size, c |-> c,
            ret |-> ret]

\* the io.size bytes of an OUT at data_offset of the run region
OutData(size) == {[i \in 1 .. size |-> b] : b \in Bytes}

\* what write(fd, &c, size) takes from the memory at &c: c, and for a size
\* above 1 the bytes that lie behind the one-byte object c in the frame of
\* exit_io
BehindC(c, size) == {<<c>> \o t : t \in [1 .. size - 1 -> Indeterminate]}

\* exit_io, port 0xE9, OUT: c = the byte at data_offset,
\* write(pty_master, &c, io.size), return 0
ExitIoConsoleOut(g) ==
    /\ pc[g] = "run"
    /\ \E r \in ExitReasons, p \in PtyMaster, size \in IoSizes :
          \E data \in OutData(size) :
              \E written \in IF p = Garbage THEN {<<>>} ELSE BehindC(data[1], size) :
                  /\ HandlerOf(r) = "exit_io"
                  /\ Loop(g, Console(g, r, "out", p, size, data[1],
                                     IF p = Garbage THEN -1 ELSE size)
                                 @@ [data |-> data, written |-> written],
                          "run")

\* exit_io, port 0xE9, IN: char c; read(pty_master, &c, 1); the byte at
\* data_offset = c; return 0
ExitIoConsoleIn(g) ==
    /\ pc[g] = "run"
    /\ \E r \in ExitReasons, p \in PtyMaster, b \in Bytes, v \in Indeterminate :
          \E ret \in IF p = Garbage THEN {-1} ELSE {1, 0, -1} :
              /\ HandlerOf(r) = "exit_io"
              /\ ev' = Console(g, r, "in", p, 1, b, ret)
              /\ reply' = Stored(ConsoleIn(ret, b, v))
              /\ hostlog' = {}
              /\ UNCHANGED <<sem, held, pc, pend, guestVars, heap, live, hostVars, lib,
                             nops, bootVars>>

\* an invalid port that leaves the loop running
ExitIoInvalidPortGoesOn(g) ==
    /\ pc[g] = "run"
    /\ \E r \in ExitReasons, port \in OtherPorts :
          /\ HandlerOf(r) = "exit_io"
          /\ Loop(g, Dispatched(g, r, "exit_io", FALSE, 0) @@ [port |-> port], "run")

\* exit_io, any other port than 0xE9 and 0x278: fprintf, return -1
ExitIoInvalidPort(g) ==
    /\ pc[g] = "run"
    /\ \E r \in ExitReasons, port \in OtherPorts :
          /\ HandlerOf(r) = "exit_io"
          /\ Loop(g, Dispatched(g, r, "exit_io", FALSE, -1) @@ [port |-> port], "error")

\* exit_io, port 0x278: handle_file(vm) and then the end of the function
\* without a return statement.  The value run_guest assigns to stop is
\* undefined: 0, and the loop goes on (the step of handle_file itself, after
\* which the guest runs), or another value, and the loop ends without a
\* diagnostic (this action, right after handle_file has returned to exit_io)
ExitIoFileNoReturn(g) ==
    /\ pc[g] = "run"
    /\ ev.g = g
    /\ ev.kind \notin {"none", "dispatch", "hlt", "kvm_run"}
    /\ Loop(g, Dispatched(g, 2, "exit_io", FALSE, Garbage) @@ [port |-> PortFile],
            "error")

\* run_guest: ioctl(KVM_RUN) < 0: perror, fprintf, return NULL
KvmRunFails(g) ==
    /\ pc[g] = "run"
    /\ Loop(g, [g |-> g, kind |-> "kvm_run", fin |-> FALSE], "error")

LoopProgram == <<OpenCall(NameA, WCT, 0), WriteCall(Ret(1), <<105>>), CloseCall(Ret(1))>>

LoopInit ==
    /\ sem = 1
    /\ held = [g \in Guests |-> 0]
    /\ lock = [g \in Guests |-> 0]
    /\ file_head = [g \in Guests |-> NULL]
    /\ file_indirect = [g \in Guests |-> NULL]
    /\ current_file = [g \in Guests |-> NULL]
    /\ heap = [a \in Addrs |-> FreshRec]
    /\ live = {}
    /\ pc = [g \in Guests |-> "run"]
    /\ pend = [g \in Guests |-> 0]
    /\ fs = SeedFs
    /\ fdt = [f \in FdRange |-> ClosedFd]
    /\ ev = [g |-> 0, kind |-> "none", fin |-> FALSE]
    /\ reply = NoReply
    /\ hostlog = {}
    /\ \E p0 \in {LoopProgram, <<OpenCall(NameA, 0, 0), ReadCall(Ret(1), 1)>>},
          p1 \in {LoopProgram, <<>>} :
          lib = [g \in Guests |-> LibStart(IF g = 0 THEN p0 ELSE p1)]
    /\ nops = 0
    /\ Booted

LoopNext ==
    \E g \in Guests :
        \/ LibExitIo(g)
        \/ StartFileOperation(g)
        \/ EndFileOperationClear(g)
        \/ LibExitHalt(g)
        \/ ExitHalt(g)
        \/ ExitShutdown(g)
        \/ ExitInternalError(g)
        \/ ExitUnknown(g)
        \/ ExitOutsideTable(g)
        \/ ExitIoInvalidPort(g)
        \/ ExitIoFileNoReturn(g)
        \/ KvmRunFails(g)

LoopSpec == LoopInit /\ [][LoopNext]_vars

(***************************************************************************)
(* Guests that run library programs to their end under a fair scheduler:   *)
(* a thread that can take a step takes one.                                *)
(***************************************************************************)
ProgressPrograms ==
    {LoopProgram,
     <<OpenCall(NameA, 0, 0), ReadCall(Ret(1), 1)>>,
     <<OpenCall(NameA, 0, 0), CloseCall(Lit(FINISH))>>}

ProgressInit ==
    /\ sem = 1
    /\ held = [g \in Guests |-> 0]
    /\ lock = [g \in Guests |-> 0]
    /\ file_head = [g \in Guests |-> NULL]
    /\ file_indirect = [g \in Guests |-> NULL]
    /\ current_file = [g \in Guests |-> NULL]
    /\ heap = [a \in Addrs |-> FreshRec]
    /\ live = {}
    /\ pc = [g \in Guests |-> "run"]
    /\ pend = [g \in Guests |-> 0]
    /\ fs = SeedFs
    /\ fdt = [f \in FdRange |-> ClosedFd]
    /\ ev = [g |-> 0, kind |-> "none", fin |-> FALSE]
    /\ reply = NoReply
    /\ hostlog = {}
    /\ \E p0 \in ProgressPrograms :
          lib = [g \in Guests |-> LibStart(IF g = 0 THEN p0 ELSE LoopProgram)]
    /\ nops = 0
    /\ Booted

Fairness ==
    \A g \in Guests :
        /\ WF_vars(LibExitIo(g))
        /\ WF_vars(StartFileOperation(g))
        /\ WF_vars(EndFileOperationClear(g))
        /\ WF_vars(LibExitHalt(g))

ProgressSpec == ProgressInit /\ [][LibNext]_vars /\ Fairness

(***************************************************************************)
(* A guest that reads a host file it has not written: the file "a" is on   *)
(* the host with any content over ReadBytes of up to MaxFileLen bytes, and *)
(* guest 0 runs open("a", O_RDONLY, 0); read(fd, buf, count).  The other   *)
(* guest has no program.                                                   *)
(***************************************************************************)
ReadBytes == {104, 255}
Contents == UNION {[1 .. n -> ReadBytes] : n \in 0 .. MaxFileLen}
ReadProgram(cnt) == <<OpenCall(NameA, 0, 0), ReadCall(Ret(1), cnt)>>

ReadInit ==
    /\ sem = 1
    /\ held = [g \in Guests |-> 0]
    /\ lock = [g \in Guests |-> 0]
    /\ file_head = [g \in Guests |-> NULL]
    /\ file_indirect = [g \in Guests |-> NULL]
    /\ current_file = [g \in Guests |-> NULL]
    /\ heap = [a \in Addrs |-> FreshRec]
    /\ live = {}
    /\ pc = [g \in Guests |-> "run"]
    /\ pend = [g \in Guests |-> 0]
    /\ \E c \in Contents : fs = (NameA :> c)
    /\ fdt = [f \in FdRange |-> ClosedFd]
    /\ ev = [g |-> 0, kind |-> "none", fin |-> FALSE]
    /\ reply = NoReply
    /\ hostlog = {}
    /\ \E cnt \in 1 .. MaxFileLen + 1 :
          lib = [g \in Guests |-> LibStart(IF g = 0 THEN ReadProgram(cnt) ELSE <<>>)]
    /\ nops = 0
    /\ Booted

ReadSpec == ReadInit /\ [][LibNext]_vars

(***************************************************************************)
(* The run loop of guests that use the console: every exit but those of    *)
(* the file port.                                                          *)
(***************************************************************************)
ConsoleInit ==
    /\ sem = 1
    /\ held = [g \in Guests |-> 0]
    /\ lock = [g \in Guests |-> 0]
    /\ file_head = [g \in Guests |-> NULL]
    /\ file_indirect = [g \in Guests |-> NULL]
    /\ current_file = [g \in Guests |-> NULL]
    /\ heap = [a \in Addrs |-> FreshRec]
    /\ live = {}
    /\ pc = [g \in Guests |-> "run"]
    /\ pend = [g \in Guests |-> 0]
    /\ fs = SeedFs
    /\ fdt = [f \in FdRange |-> ClosedFd]
    /\ ev = [g |-> 0, kind |-> "none", fin |-> FALSE]
    /\ reply = NoReply
    /\ hostlog = {}
    /\ lib = [g \in Guests |-> LibStart(<<>>)]
    /\ nops = 0
    /\ Booted

ConsoleNext ==
    \E g \in Guests :
        \/ ExitIoConsoleOut(g)
        \/ ExitIoConsoleIn(g)
        \/ LibExitHalt(g)
        \/ ExitShutdown(g)
        \/ ExitInternalError(g)
        \/ ExitUnknown(g)
        \/ ExitOutsideTable(g)
        \/ ExitIoInvalidPort(g)
        \/ KvmRunFails(g)

ConsoleSpec == ConsoleInit /\ [][ConsoleNext]_vars


(***************************************************************************)
(* Claims about the engine under guests that send any message (Spec).      *)
(***************************************************************************)
AtRest(g) == pc[g] \in {"run", "halted"}
IsLast(g, a) ==
    LET l == ListFrom(heap, file_head[g]) IN l # <<>> /\ l[Len(l)] = a

\* C1: at most one guest has file_lock different from IDLE, in every
\* reachable state and for every interleaving of the run-loop threads.
C1_MutualExclusion ==
    \A g1, g2 \in Guests : g1 # g2 => lock[g1] = 0 \/ lock[g2] = 0

\* C2: between any two port-0x278 messages of a guest, either file_lock is
\* IDLE and current_file is none, or file_lock is OPEN, CLOSE, READ or WRITE
\* and current_file is one of the records reachable from file_head.
C2_LockAndCurrentFile ==
    \A g \in Guests :
        AtRest(g) =>
            \/ lock[g] = 0 /\ current_file[g] = NULL
            \/ lock[g] \in {OPEN, CLOSE, READ, WRITE} /\ current_file[g] \in Files(g)

\* C3: when start_file_operation has run for an OPEN request, the new record
\* is the last element of the list that starts at the guest's file_head.
C3_OpenAppendsAtTail ==
    (ev.kind = "started" /\ lock[ev.g] = OPEN) => IsLast(ev.g, current_file[ev.g])

\* C5: once a 32-bit OUT of FINISH has been handled, whatever file_lock was,
\* the guest has file_lock = IDLE, current_file = none and does not hold the
\* token.  (The handling of a FINISH is over when the thread is back in the
\* guest: after the step that follows sem_post, or after the sem_wait that
\* an operation code goes through.)
FinishHandled(g) ==
    ev.g = g /\ ev.fin /\ ev.kind \in {"cleared", "started", "flags", "resolve"}
C5_FinishReleases ==
    \A g \in Guests :
        FinishHandled(g) => lock[g] = 0 /\ current_file[g] = NULL /\ held[g] = 0

\* C6: when a guest has sent OPEN and executes HLT before the operation is
\* complete, its run loop has stopped with result 1 and stays stopped, the
\* token stays held by it (file_mutex stays 0), and no other guest that is
\* blocked in the token acquisition of an operation code ever proceeds.
HaltedMidOpen(g) == pc[g] = "halted" /\ lock[g] = OPEN
C6_HaltMidOpenKeepsToken ==
    [][\A g \in Guests :
          HaltedMidOpen(g) =>
              /\ held[g] = 1 /\ sem = 0
              /\ HaltedMidOpen(g)' /\ held'[g] = 1 /\ sem' = 0
              /\ \A h \in Guests \ {g} :
                    /\ pc[h] = "wait" => pc'[h] = "wait"
                    /\ lock'[h] \in {lock[h], 0}]_vars
C6_Witness ==
    \E g, h \in Guests : g # h /\ HaltedMidOpen(g) /\ pc[h] = "wait" /\ pend[h] # FINISH

(***************************************************************************)
(* Claims about the engine under guests that run library programs          *)
(* (LibSpec).                                                              *)
(***************************************************************************)
IsRoundTrip(p) ==
    /\ Len(p) = 5
    /\ p[1].op = "open" /\ WriteIntent(p[1].flags)
    /\ p[2].op = "write" /\ p[2].fd = Ret(1)
    /\ p[3].op = "close" /\ p[3].fd = Ret(1)
    /\ p[4].op = "open" /\ p[4].name = p[1].name
    /\ p[5].op = "read" /\ p[5].fd = Ret(4) /\ p[5].count >= Len(p[2].buf)

\* C4: when a guest has opened a filename with write intent, written the
\* bytes B through the returned descriptor, closed it, opened the same
\* filename again and read through the new descriptor with the library's
\* read (count at least the length of B), the bytes read are exactly B.
C4_WriteReadRoundTrip ==
    \A g \in Guests :
        (/\ IsRoundTrip(lib[g].prog)
         /\ Len(lib[g].done) = 5
         /\ lib[g].done[1].ret >= 0
         /\ lib[g].done[4].ret >= 0)
            => lib[g].done[5].buf = lib[g].prog[2].buf

\* the step in which opened_file_op_flags handles the mode dword of guest g
\* the step is not one of another guest's library (an exit that handle_file
\* ignores leaves ev as it was)
Mover(g) == \A h \in Guests \ {g} : lib'[h] = lib[h]
ResolveStep(g) == ev'.kind = "resolve" /\ ev'.g = g /\ Mover(g)
\* the path that the policy names for the request
PolicyPath(g, name, flags) ==
    IF SandboxPath(Id(g), name) \in DOMAIN fs \/ WriteIntent(flags)
    THEN SandboxPath(Id(g), name) ELSE name

\* C7: at the mode dword of OPEN the engine opens, with the guest's flags,
\* vm_<id>_<name> if that path exists, else vm_<id>_<name> after creating it
\* if the flags have a write-intent bit, else the unprefixed <name>; the
\* descriptor of that open, negative when it fails, becomes host_fd.
C7_PathResolution ==
    [][\A g \in Guests :
          ResolveStep(g) =>
              LET cf == current_file[g]
                  want == PolicyPath(g, ev'.name, ev'.flags)
                  fd == heap'[cf].fd
              IN  /\ fd >= 0 =>
                        /\ ~IsOpenFd(fdt, fd) /\ IsOpenFd(fdt', fd)
                        /\ fdt'[fd].path = want /\ fdt'[fd].flags = ev'.flags
                  /\ fd < 0 =>
                        /\ \A e \in hostlog' : e.op = "open" => e.path = want
                        /\ \/ HostOpen(fs', fdt', want, ev'.flags).ret < 0
                           \/ \E e \in hostlog' : e.path = want /\ e.op = "create"]_vars

\* C8: no OPEN of a guest opens a host path that starts with the prefix
\* vm_<id>_ of another guest.
C8_NoNamespaceEscape ==
    \A e \in hostlog :
        e.op = "open" =>
            \A h \in Guests \ {e.g} : ~IsPrefix(SprintfPrefix(Id(h)), e.path)

\* C9: the sandboxed path that the engine builds is a function of the guest
\* id and the filename: two OPENs of the same filename by one guest build the
\* same path, and OPENs of two guests, of whatever filenames, build different
\* paths; nor does any other id, with any filename, give the path just built.
MaxId == 11
OpenPaths(g) ==
    {<<lib[g].prog[i].name, lib[g].done[i].path>> :
        i \in {j \in 1 .. Len(lib[g].done) : lib[g].prog[j].op = "open"}}
OtherNames == LNames \cup {<<48, 95, 97>>, <<95, 97>>, <<49, 95, 97>>, <<>>}
C9_SandboxPathFunction ==
    /\ \A g \in Guests : \A x, y \in OpenPaths(g) : x[1] = y[1] => x[2] = y[2]
    /\ \A g, h \in Guests :
          g # h => \A x \in OpenPaths(g), y \in OpenPaths(h) : x[2] # y[2]
    /\ ev.kind = "resolve" =>
          \A i \in 0 .. MaxId, n \in OtherNames :
              i # Id(ev.g) => SandboxPath(i, n) # ev.path
OpenDone(g) == {j \in 1 .. Len(lib[g].done) : lib[g].prog[j].op = "open"}
C9_Witness ==
    \E i, j \in OpenDone(0), k \in OpenDone(1) :
        /\ i # j
        /\ lib[0].prog[i].name = lib[0].prog[j].name
        /\ lib[0].prog[i].name = lib[1].prog[k].name

\* C10: no host file whose name lacks the prefix vm_<id>_ of the guest that
\* issued the operation is created or modified.
C10_WritesStayInNamespace ==
    \A e \in hostlog :
        e.op \in {"create", "modify"} => IsPrefix(SprintfPrefix(Id(e.g)), e.path)

\* C11: an OPEN whose flags have none of O_RDWR, O_WRONLY, O_TRUNC, O_APPEND
\* never creates vm_<id>_<name>: when that path is absent before the OPEN is
\* resolved it is absent after it, and host_fd is what the host open of the
\* unprefixed <name> with the guest's flags gave (a new descriptor on <name>,
\* or a negative value when that open fails).
NoWriteIntent(flags) ==
    ~(HasBit(flags, O_RDWR) \/ HasBit(flags, O_WRONLY)
        \/ HasBit(flags, O_TRUNC) \/ HasBit(flags, O_APPEND))
C11_ReadOnlyOpenNeverCreatesSandbox ==
    [][\A g \in Guests :
          (ResolveStep(g) /\ NoWriteIntent(ev'.flags) /\ ev'.path \notin DOMAIN fs) =>
              LET fd == heap'[current_file[g]].fd
              IN  /\ ev'.path \notin DOMAIN fs'
                  /\ \A e \in hostlog' : e.path = ev'.name
                  /\ fd = HostOpen(fs, fdt, ev'.name, ev'.flags).ret
                  /\ fd >= 0 =>
                        /\ ~IsOpenFd(fdt, fd) /\ IsOpenFd(fdt', fd)
                        /\ fdt'[fd].path = ev'.name /\ fdt'[fd].flags = ev'.flags
                  /\ fd < 0 => fdt' = fdt]_vars
C11_Witness ==
    /\ ev.kind = "resolve" /\ NoWriteIntent(ev.flags) /\ ~ev.sandbox
    /\ ev.path \notin DOMAIN fs
    /\ heap[current_file[ev.g]].fd >= 0
    /\ fdt[heap[current_file[ev.g]].fd].path = ev.name

(***************************************************************************)
(* Claims about the creation of the guests (BootSpec).                     *)
(***************************************************************************)
\* the guests whose init_guest has returned with success, in creation order
Initialized ==
    {g \in BootGuests : g < main_i \/ (g = main_i /\ boot_pc \in {"start_guest", "crashed"})}

\* C12: guest ids are assigned at successful initialization as 0, 1, 2, ...
\* in initialization order: every initialized guest's id is non-negative, a
\* guest initialized later has a strictly larger id, and no two guests have
\* the same id.
C12_IdsInInitializationOrder ==
    /\ \A g \in Initialized : id[g] = g /\ id[g] >= 0
    /\ \A g, h \in Initialized : g < h => id[g] < id[h]
    /\ \A g, h \in Initialized : g # h => id[g] # id[h]
    /\ incId = Cardinality(Initialized)
C12_Witness ==
    /\ boot_pc = "join"
    /\ Initialized = BootGuests
    /\ id[MaxVms - 1] = MaxVms - 1

\* setup_long_mode has returned a load address for the guest main is creating
LoadAddressKnown ==
    boot_pc \in {"setup_registers", "init_fields", "start_guest", "crashed"}

\* C13: for every mem_size that is a positive multiple of 2 MiB the address
\* setup_long_mode returns is 0x200000 under MB2 and
\* 0x3000 + (mem_size / 2 MiB) * 4 KiB under KB4, and every paging entry it
\* has written lies below that address.
C13_LoadAddress ==
    LoadAddressKnown =>
        /\ starting_address =
              IF page_size = MB2 THEN 2097152
              ELSE 12288 + (mem_size \div 2097152) * 4096
        /\ \A a \in DOMAIN mem[main_i] : a + EntryBytes <= starting_address
C13_Witness ==
    /\ boot_pc = "setup_registers"
    /\ page_size = KB4 /\ mem_size = MaxMem2MB * SIZE2MB
    /\ starting_address = 12288 + MaxMem2MB * 4096
    /\ DOMAIN mem[main_i] # {}

\* the long-mode bootstrap has returned under MB2
BootstrappedMB2 == LoadAddressKnown /\ page_size = MB2

WrittenPd == {a \in DOMAIN mem[main_i] : pd_addr <= a /\ a < pd_addr + PageBytes}

\* C15: under MB2 the bootstrap writes exactly mem_size / 2 MiB - 1 entries
\* of the page directory: PD[i] = PRESENT|RW|USER|PS|(0x200000 + i * 2 MiB)
\* for i = 0 .. mem_size / 2 MiB - 2 and no other; none for mem_size = 2 MiB.
C15_PageDirectoryMB2 ==
    BootstrappedMB2 =>
        /\ WrittenPd = {8192 + 8 * i : i \in 0 .. mem_size \div 2097152 - 2}
        /\ Cardinality(WrittenPd) = mem_size \div 2097152 - 1
        /\ \A i \in 0 .. mem_size \div 2097152 - 2 :
              mem[main_i][8192 + 8 * i] = (1 + 2 + 4 + 128) + (2097152 + i * 2097152)
        /\ mem_size = 2097152 => WrittenPd = {}
C15_Witness ==
    /\ BootstrappedMB2
    /\ mem_size = MaxMem2MB * SIZE2MB
    /\ Cardinality(WrittenPd) = MaxMem2MB - 1
    /\ Load(mem[main_i], pd_addr + EntryBytes) = 135 + 2 * SIZE2MB

\* the long-mode bootstrap has returned under KB4
BootstrappedKB4 == LoadAddressKnown /\ page_size = KB4
\* the addresses of the page-table entries written in the guest main is
\* creating, and the frame an entry maps
WrittenPt == {a \in DOMAIN mem[main_i] : a >= FirstPage}
Frame(a) == PageBase(mem[main_i][a])

\* C16: under KB4 every page-table entry the bootstrap writes maps a 4 KiB
\* frame that lies entirely inside the guest's memory (frame + 4 KiB <=
\* mem_size), and no entry maps the frame that starts at mem_size.
C16_FramesInsideMemory ==
    BootstrappedKB4 =>
        \A a \in WrittenPt :
            /\ Frame(a) + 4096 <= mem_size
            /\ Frame(a) # mem_size

\* the page table that PD[i] of the guest main is creating points to
PageTableOf(i) == PageBase(Load(mem[main_i], pd_addr + EntryBytes * i))

C18_ReleaseOnFailure ==
    boot_pc = "returned" => \A r \in acquired : r[1] # main_i

(***************************************************************************)
(* Claims about the run loop (LoopSpec).                                   *)
(***************************************************************************)
\* the step is the dispatch of an exit of guest g, other than a HLT or an
\* exit on port 0x278
DispatchStep(g) == pc[g] = "run" /\ ev'.kind = "dispatch" /\ ev'.g = g

\* C19: the run loop re-enters the guest only if the handler of the exit
\* reason returned 0; SHUTDOWN (8) ends the loop with 1 and HLT (5) with 1,
\* INTERNAL_ERROR (17) ends it with -1; and every exit reason without a
\* handler, those beyond index 17 of the table included, prints the
\* diagnostic and ends the loop with -1 without a call of any handler.
C19_RunLoopDispatch ==
    [][\A g \in Guests :
          /\ DispatchStep(g) =>
                LET r == ev'.reason
                IN  /\ pc'[g] = "run" =>
                          /\ ev'.stop = 0
                          /\ ev'.called \in {"exit_io", "exit_halt", "exit_shutdown",
                                             "exit_internal_error"}
                    /\ r = 8 => ev'.called = "exit_shutdown" /\ ev'.stop = 1
                                    /\ pc'[g] = "shutdown"
                    /\ r = 17 => ev'.called = "exit_internal_error" /\ ev'.stop = -1
                                    /\ pc'[g] = "error"
                    /\ r \notin {2, 5, 8, 17} =>
                          /\ ev'.called = "none" /\ ev'.diag
                          /\ ev'.stop = -1 /\ pc'[g] = "error"
                          /\ \A h \in Guests \ {g} : pc'[h] = pc[h]
          /\ (pc[g] = "run" /\ ev'.kind = "hlt" /\ ev'.g = g) => pc'[g] = "halted"]_vars

\* C20: an I/O exit on a port other than 0xE9 and 0x278 ends the run loop of
\* the guest that issued it with -1 and changes nothing of another guest:
\* file_lock, files, current_file and the state of the run loop of every
\* other guest are as before, so the others that ran still run.
C20_InvalidPortStopsOnlyIssuer ==
    [][\A g \in Guests :
          (DispatchStep(g) /\ ev'.called = "exit_io" /\ ev'.port \notin {233, 632}) =>
              /\ pc'[g] = "error" /\ ev'.stop = -1
              /\ \A h \in Guests \ {g} :
                    /\ lock'[h] = lock[h]
                    /\ file_head'[h] = file_head[h] /\ file_indirect'[h] = file_indirect[h]
                    /\ current_file'[h] = current_file[h]
                    /\ pc'[h] = pc[h]
              /\ heap' = heap /\ live' = live /\ sem' = sem /\ held' = held
              /\ fs' = fs /\ fdt' = fdt]_vars
C20_Witness ==
    /\ ev.kind = "dispatch" /\ ev.called = "exit_io" /\ ev.port \in OtherPorts
    /\ pc[ev.g] = "error"
    /\ \E h \in Guests \ {ev.g} : pc[h] = "run" /\ lock[h] = WRITE /\ Files(h) # {}

Running == {"run", "wait", "end"}
FilePortStep(g) ==
    /\ ev'.g = g /\ Mover(g)
    /\ \/ ev'.kind \in {"sem_wait", "started", "cleared", "finish", "flags", "resolve",
                        "name", "get_fd", "send_fd", "close_status", "read", "write"}
       \/ ev'.kind = "dispatch" /\ ev'.called = "exit_io" /\ ev'.port = PortFile

\* C21: every exit on port 0x278 leaves the run loop of the guest that
\* issued it going, whatever the host's open, close, read or write returned;
\* when the loop of a guest ends, the step is a halt, a failed KVM_RUN or
\* the dispatch of an exit that is neither on port 0x278 nor on port 0xE9.
C21_FilePortNeverStopsTheLoop ==
    [][\A g \in Guests :
          /\ (pc[g] \in Running /\ FilePortStep(g)) => pc'[g] \in Running
          /\ (pc[g] \in Running /\ pc'[g] \notin Running) =>
                /\ ev'.kind \in {"hlt", "kvm_run", "dispatch"}
                /\ (ev'.kind = "dispatch" /\ ev'.called = "exit_io") =>
                      ev'.port \notin {PortConsole, PortFile}]_vars

ConsoleStep(g, dir) ==
    /\ pc[g] = "run" /\ ev'.kind = "dispatch" /\ ev'.g = g /\ ev'.called = "exit_io"
    /\ ev'.port = PortConsole /\ ev'.dir = dir

\* C22: an IN from port 0xE9 reads one byte from pty_master and stores it at
\* data_offset of the run region; when the host's read delivers no byte (it
\* returns 0 or fails) the stored value is the EOF sentinel.
C22_ConsoleInput ==
    [][\A g \in Guests :
          ConsoleStep(g, "in") =>
              /\ reply'.stored
              /\ ev'.ret = 1 => reply'.val = ev'.c
              /\ ev'.ret # 1 => reply'.val = ToByte(EOF)]_vars

\* C30: when the run loop of a guest handles an exit on port 0xE9, a
\* pseudoterminal has been opened for that guest and the byte goes to, or
\* comes from, its master.
C30_ConsoleOnOwnPty ==
    [][\A g \in Guests :
          (ConsoleStep(g, "in") \/ ConsoleStep(g, "out")) => ev'.fd \in OpenPtys(g)]_vars

\* the open call the library of guest g is executing
OpenCallOf(g) == lib[g].prog[lib[g].ip]
SendFdStep(g) ==
    /\ pc[g] = "run" /\ lock[g] = OPEN /\ ev'.g = g /\ ev'.kind = "send_fd" /\ Mover(g)
    /\ lib[g].ip <= Len(lib[g].prog) /\ OpenCallOf(g).op = "open"
    /\ lib[g].step = Len(OpenCallOf(g).name) + 4

\* C23: the IN dword that ends a complete OPEN sequence gives the guest the
\* fd of current_file; the record holds the name, the flags and the mode the
\* guest sent; and when the operation has ended the guest holds no token,
\* its lock is 0 and its current_file is NULL.
C23_OpenSequence ==
    [][\A g \in Guests :
          /\ SendFdStep(g) =>
                LET f == heap[current_file[g]]
                    c == OpenCallOf(g)
                IN  /\ reply'.stored /\ reply'.val = f.fd
                    /\ lib'[g].done[lib[g].ip].ret = f.fd
                    /\ CString(f.ime) = c.name
                    /\ f.flags = c.flags /\ f.mode = c.mode
                    /\ heap'[current_file[g]] = f
          /\ (pc[g] = "end" /\ ev.g = g /\ ev.kind = "send_fd"
                /\ ev'.g = g /\ ev'.kind = "cleared") =>
                /\ held'[g] = 0 /\ lock'[g] = 0 /\ current_file'[g] = NULL]_vars

\* the list l without the address a
Without(l, a) == SelectSeq(l, LAMBDA x : x # a)

\* the IN dword of the library's close(fd)
CloseStatusIn(g) ==
    /\ pc[g] = "run" /\ lib[g].ip <= Len(lib[g].prog)
    /\ lib[g].prog[lib[g].ip].op = "close" /\ lib[g].step = 2
    /\ lib'[g] # lib[g]

\* C24: the status IN of a CLOSE whose fd dword matches an entry of the
\* guest's files closes that descriptor on the host, takes exactly that
\* entry out of files and returns what the host's close returned; when the
\* fd dword matches no entry the status is -1, the host closes nothing and
\* files is as before.
C24_Close ==
    [][\A g \in Guests :
          CloseStatusIn(g) =>
              LET fd == FdArg(lib[g], lib[g].prog[lib[g].ip])
                  l == ListFrom(heap, file_head[g])
                  a == FindFd(heap, l, 1, fd)
                  c == HostClose(fdt, fd)
              IN  IF a # NULL
                  THEN /\ fdt' = c.fdt
                       /\ ListFrom(heap', file_head'[g]) = Without(l, a)
                       /\ reply'.stored /\ reply'.val = c.ret
                       /\ lib'[g].cur.status = c.ret
                  ELSE /\ fdt' = fdt
                       /\ ListFrom(heap', file_head'[g]) = l
                       /\ reply'.stored /\ reply'.val = -1
                       /\ lib'[g].cur.status = -1]_vars

ReadStep(g) ==
    pc[g] = "run" /\ lock[g] = READ /\ ev'.g = g /\ ev'.kind = "read" /\ Mover(g)

\* the host can deliver a byte from descriptor fd
Readable(fd) ==
    /\ IsOpenFd(fdt, fd) /\ AccMode(fdt[fd].flags) \in {0, 2}
    /\ fdt[fd].pos < Len(fs[fdt[fd].path])

\* C25: a byte IN in state READ returns the EOF sentinel when current_file
\* is NULL or the host's read does not deliver a byte, and nothing on the
\* host changes; otherwise it returns the byte at the file position and
\* moves the position on by one.  At the end of the file every IN returns
\* the sentinel and the position stays.
C25_Read ==
    [][\A g \in Guests :
          ReadStep(g) =>
              LET cf == current_file[g]
                  fd == heap[cf].fd
              IN  /\ reply'.stored
                  /\ fs' = fs
                  /\ IF cf # NULL /\ Readable(fd)
                     THEN /\ reply'.val = fs[fdt[fd].path][fdt[fd].pos + 1]
                          /\ fdt' = [fdt EXCEPT ![fd].pos = @ + 1]
                     ELSE /\ reply'.val = ToByte(EOF)
                          /\ fdt' = fdt]_vars
C25_Witness ==
    /\ ev.kind = "read" /\ reply.stored /\ reply.val = ToByte(EOF)
    /\ current_file[ev.g] # NULL
    /\ LET fd == heap[current_file[ev.g]].fd
       IN  /\ IsOpenFd(fdt, fd)
           /\ fdt[fd].pos = Len(fs[fdt[fd].path]) /\ fdt[fd].pos > 0

\* C26: an OPEN whose name has 49 bytes before the null byte is taken as it
\* is; an OPEN whose name has 50 bytes or more before the null byte gives
\* the guest the fd -1; and cnt never exceeds 50, the size of ime, so that
\* no name byte is stored outside ime.
C26_NameLengthBoundary ==
    [][/\ \A a \in live' : heap'[a].cnt <= ImeSize
       /\ \A g \in Guests :
             SendFdStep(g) =>
                 LET f == heap[current_file[g]]
                     c == OpenCallOf(g)
                 IN  /\ Len(c.name) = ImeSize - 1 =>
                           CString(f.ime) = c.name /\ f.cnt = ImeSize
                     /\ Len(c.name) >= ImeSize => reply'.val = -1]_vars

\* C27: the lock of a guest is 0, OPEN, CLOSE, READ or WRITE, whatever dword
\* the guest sends as operation code while its lock is 0, and it changes
\* only from 0 to an operation or from an operation to 0.
C27_LockValues ==
    [][\A g \in Guests :
          /\ lock'[g] \in {0, OPEN, CLOSE, READ, WRITE}
          /\ lock'[g] # lock[g] => (lock[g] = 0 \/ lock'[g] = 0)]_vars

\* C28: no two entries of the files of one guest have the same fd, those
\* whose open failed or has not been performed yet included.
C28_FdIdentifiesEntry ==
    \A g \in Guests :
        LET l == ListFrom(heap, file_head[g])
        IN  \A i, j \in 1 .. Len(l) : i # j /\ l[i] # l[j] => heap[l[i]].fd # heap[l[j]].fd

CloseStep(g) ==
    pc[g] = "run" /\ lock[g] = CLOSE /\ ev'.g = g /\ ev'.kind = "close_status" /\ Mover(g)

\* C29: every entry of a guest's files whose fd is not negative holds a
\* descriptor that is open on the host; and when a CLOSE stores the status
\* 0 for the guest, the host descriptor of the record has been closed.
C29_EntriesHoldOpenDescriptors ==
    [][\A g \in Guests :
          /\ \A a \in Files(g)' : heap'[a].fd >= 0 => IsOpenFd(fdt', heap'[a].fd)
          /\ (CloseStep(g) /\ reply'.stored /\ reply'.val = 0) =>
                /\ current_file[g] # NULL
                /\ IsOpenFd(fdt, heap[current_file[g]].fd)
                /\ ~IsOpenFd(fdt', heap[current_file[g]].fd)]_vars
C29_Witness ==
    /\ ev.kind = "close_status" /\ reply.stored /\ reply.val = 0
    /\ \E a \in Files(ev.g) : heap[a].fd >= 0 /\ IsOpenFd(fdt, heap[a].fd)

\* C31: an OUT of size 1, 2 or 4 to port 0xE9 writes to pty_master exactly
\* the size bytes that lie at data_offset of the run region, in order.
C31_ConsoleOutput ==
    [][\A g \in Guests :
          ConsoleStep(g, "out") => ev'.written = ev'.data]_vars

\* the k-th dword that the library's open sends after the name
OpenDword(g, k) ==
    /\ pc[g] = "run" /\ lock[g] = OPEN /\ lib[g].ip <= Len(lib[g].prog)
    /\ OpenCallOf(g).op = "open"
    /\ lib[g].step = Len(OpenCallOf(g).name) + 1 + k
    /\ lib'[g] # lib[g]

\* C32: in an OPEN sequence the first dword after the name becomes the
\* flags of current_file and nothing is opened; the second becomes its
\* mode and the path is resolved and opened, with the flags sent; for
\* every value of the flags, 0xFFFFFFFF included.
C32_FlagsThenMode ==
    [][\A g \in Guests :
          LET cf == current_file[g]
              c == OpenCallOf(g)
          IN  /\ OpenDword(g, 1) =>
                    /\ heap'[cf].flags = c.flags
                    /\ ev'.kind = "flags" /\ fdt' = fdt /\ fs' = fs
              /\ OpenDword(g, 2) =>
                    /\ heap'[cf].flags = c.flags /\ heap'[cf].mode = c.mode
                    /\ ev'.kind = "resolve" /\ ev'.flags = c.flags]_vars

\* C33: the semaphore file_mutex is 0 or 1 in every state, and a guest
\* executes end_file_operation (sem_post) only while it holds the permit it
\* took in start_file_operation, whatever the guests send on port 0x278.
C33_SinglePermit ==
    [][/\ sem \in {0, 1} /\ sem' \in {0, 1}
       /\ \A g \in Guests :
             /\ sem' > sem /\ held'[g] # held[g] => held[g] = 1 /\ held'[g] = 0
             /\ (pc[g] # "end" /\ pc'[g] = "end") =>
                    held[g] = 1 /\ held'[g] = 0 /\ sem' = sem + 1]_vars
C33_Witness ==
    /\ ev.kind = "finish" /\ pc[ev.g] = "end" /\ sem = 1 /\ held[ev.g] = 0
    /\ \E h \in Guests \ {ev.g} : pc[h] = "wait"

\* C34: when the guests issue only the complete sequences of the library
\* and do not halt inside one, a guest that waits for the token gets it
\* and completes its operation: it runs again with lock 0 and no permit.
C34_Progress ==
    \A g \in Guests :
        (pc[g] = "wait") ~> (pc[g] = "run" /\ lock[g] = 0 /\ held[g] = 0)

\* C35: whatever fd a guest passes to the library's close, read or write,
\* 0 and values that match no entry included, when the call has returned
\* the guest's lock is 0 and the guest holds no permit.
C35_CallsReleaseToken ==
    \A g \in Guests :
        (pc[g] \in {"run", "halted"} /\ lib[g].step = 0) => lock[g] = 0 /\ held[g] = 0

\* the records of guest h's list with their contents
FilesOf(hp, head) == [i \in 1 .. Len(ListFrom(hp, head)) |-> <<ListFrom(hp, head)[i], hp[ListFrom(hp, head)[i]]>>]
TouchesGuest(h) ==
    \/ lock'[h] # lock[h]
    \/ current_file'[h] # current_file[h]
    \/ FilesOf(heap', file_head'[h]) # FilesOf(heap, file_head[h])
HostAccessStep(g) ==
    /\ ev'.g = g /\ Mover(g) /\ pc[g] = "run"
    /\ ev'.kind \in {"read", "write", "close_status"}
    /\ (fdt' # fdt \/ fs' # fs)

\* C36: a step that reads, writes or closes a host descriptor on behalf of
\* guest g uses the descriptor of a live record of g's own list that is in
\* no other guest's list, and a step changes the lock, the list (its
\* records and their contents) or current_file of a guest only when it is
\* a step of that guest.
C36_Isolation ==
    [][\A g \in Guests :
          /\ HostAccessStep(g) =>
                 /\ current_file[g] \in Files(g) \cap live
                 /\ \A h \in Guests \ {g} : current_file[g] \notin Files(h)
          /\ TouchesGuest(g) => ev'.g = g]_vars

\* guest g executes an IN of its library call on port 0x278
LibInStep(g) ==
    /\ pc[g] = "run" /\ lib[g].ip <= Len(lib[g].prog)
    /\ lib'[g] # lib[g]
    /\ LibMsg(lib[g]).dir = "in"

\* C37: every IN on port 0x278, byte or dword, in every value of the lock,
\* is answered: the engine stores a value for it in the step that handles
\* the exit, before the guest runs again.
C37_EveryInAnswered ==
    [][\A g \in Guests :
          LibInStep(g) => StoresValue(g, LibMsg(lib[g])) /\ reply'.stored]_vars

\* the smaller of two numbers
Least(a, b) == IF a < b THEN a ELSE b
\* guest g has returned from the read of ReadProgram after an open that
\* gave it a descriptor
ReadReturned(g) ==
    /\ Len(lib[g].prog) = 2 /\ lib[g].prog[2].op = "read"
    /\ Len(lib[g].done) = 2 /\ lib[g].done[1].ret >= 0

\* C38: for every content of the file, 0xFF bytes included, the library's
\* read returns the number of bytes the file holds, up to count, and
\* stores exactly those bytes.
C38_ReadReturnsAvailableBytes ==
    \A g \in Guests :
        ReadReturned(g) =>
            LET n == Least(lib[g].prog[2].count, Len(fs[NameA]))
            IN  /\ lib[g].done[2].ret = n
                /\ lib[g].done[2].buf = SubSeq(fs[NameA], 1, n)

\* the entries of the guests' lists whose fd is the descriptor d
HoldersOf(d) == {<<g, a>> \in Guests \X Addrs : a \in Files(g) /\ heap[a].fd = d}

\* C39: every host descriptor that is open is the fd of exactly one entry
\* of some guest's list, whatever file operations have been performed.
C39_NoDescriptorLeak ==
    \A d \in FdRange : IsOpenFd(fdt, d) => Cardinality(HoldersOf(d)) = 1

\* C40: in both page modes and for every mem_size of at least 4 MiB that
\* is a multiple of 2 MiB, the tables the bootstrap has written translate
\* the virtual address in RIP, 0, to the address the bootstrap returned,
\* which is where start_guest copies the image, and that address is inside
\* the guest's memory.
C40_BootConsistency ==
    (LoadAddressKnown /\ mem_size >= 2 * SIZE2MB) =>
        /\ Translate(mem[main_i], Rip) = starting_address
        /\ starting_address < mem_size
C40_Witness ==
    /\ boot_pc = "start_guest"
    /\ page_size = KB4 /\ mem_size = 2 * SIZE2MB
    /\ Translate(mem[main_i], Rip) = FirstPage + 2 * PageBytes
    /\ starting_address = FirstPage + 2 * PageBytes

=============================================================================
